---- MODULE Spec2Model ----
(***************************************************************************)
(* A model of the signed, rate-limit-aware request executor of twx-cli     *)
(* (src/src/client/index.ts): XClient.request, getRateLimitWaitMs, sleep   *)
(* and parseResponse.                                                      *)
(*                                                                         *)
(* Text (header values, response bodies) is a sequence of one-character    *)
(* strings.  JavaScript numbers that may exceed 32 bits (epoch             *)
(* milliseconds, the 10^12 threshold) are two-limb integers                *)
(* [hi, lo] = hi * 10^6 + lo with 0 <= lo < 10^6.                          *)
(***************************************************************************)
EXTENDS Integers, Sequences, FiniteSets, TLC

VARIABLES
    wPc,        \* getRateLimitWaitMs harness: "input" | "done"
    wHeader,    \* the x-rate-limit-reset header handed to getRateLimitWaitMs
    wNow,       \* the value Date.now() returns inside getRateLimitWaitMs
    wWait,      \* the value getRateLimitWaitMs returned
    pPc,        \* parseResponse harness: "off" | "input" | "done"
    pStatus,    \* res.status of the response handed to parseResponse
    pText,      \* the text res.text() resolves to
    pResult,    \* what parseResponse returned or threw
    options,    \* this.options: [onRateLimit: "absent" | "returns" | "throws"]
    env,        \* the name of the environment: what the server and the clock may answer
    pending,    \* the logical calls the caller has yet to make
    signCtr,    \* the number of oauth.authorize calls made so far by this client
    calls,      \* per logical call: the frame of request() and its history
    mPc,        \* resource method harness: "off" | "start" | "awaiting" | "done"
    mCall,      \* the resource method invoked and its arguments
    mReq,       \* the (method, url, body) it handed to request()
    mRes,       \* what request() resolved or rejected with
    mRet,       \* what the resource method returned or threw
    lPc,        \* loadCredentials harness: "off" | "start" | "done"
    startEnv,   \* process.env as it is when loadCredentials is called
    processEnv, \* process.env: the variables that are set, with their values
    configFile, \* the file at ~/.config/twx-cli/.env: existence, mode, lines
    warnings,   \* the number of console.warn calls made
    lResult     \* what loadCredentials returned or threw

waitVars == <<wPc, wHeader, wNow, wWait>>

parseVars == <<pPc, pStatus, pText, pResult>>

clientVars == <<options, env, pending, signCtr, calls>>

methodVars == <<mPc, mCall, mReq, mRes, mRet>>

configVars == <<lPc, startEnv, processEnv, configFile, warnings, lResult>>

vars == <<wPc, wHeader, wNow, wWait, pPc, pStatus, pText, pResult,
          options, env, pending, signCtr, calls,
          mPc, mCall, mReq, mRes, mRet,
          lPc, startEnv, processEnv, configFile, warnings, lResult>>

----------------------------------------------------------------------------
(* Program constants *)

MAX_RATE_LIMIT_RETRIES == 2

DEFAULT_RATE_LIMIT_WAIT_MS == 1000

\* text.slice(0, 200)
ERROR_TEXT_LIMIT == 200

(* Bounds of the model *)

\* the longest non-JSON body has ERROR_TEXT_LIMIT + MaxExtraText characters
MaxExtraText == 5

\* Date.now() is drawn from Epoch + k * ClockStep for k in 0..MaxClockSteps
MaxClockSteps == 2

\* milliseconds between two clock values
ClockStep == 500

----------------------------------------------------------------------------
(* Two-limb integers: JavaScript number arithmetic on integers below 2^53 *)

BigBase == 1000 * 1000

BigNorm(h, l) == [hi |-> h + (l \div BigBase), lo |-> l % BigBase]

BigOfInt(n) == BigNorm(0, n)

BigZero == [hi |-> 0, lo |-> 0]

BigAdd(a, b) == BigNorm(a.hi + b.hi, a.lo + b.lo)

BigSub(a, b) == BigNorm(a.hi - b.hi, a.lo - b.lo)

\* a * k for a small non-negative k (k <= 1000)
BigMulSmall(a, k) == BigNorm(a.hi * k, a.lo * k)

BigNeg(a) == BigSub(BigZero, a)

BigLess(a, b) == a.hi < b.hi \/ (a.hi = b.hi /\ a.lo < b.lo)

BigLeq(a, b) == a = b \/ BigLess(a, b)

\* Math.max(a, b)
BigMax(a, b) == IF BigLess(a, b) THEN b ELSE a

\* 1_000_000_000_000
MS_THRESHOLD == [hi |-> 1000 * 1000, lo |-> 0]

----------------------------------------------------------------------------
(* Number.parseInt(text, 10) *)

Digits == {"0", "1", "2", "3", "4", "5", "6", "7", "8", "9"}

DigitValue(c) ==
    CASE c = "0" -> 0 [] c = "1" -> 1 [] c = "2" -> 2 [] c = "3" -> 3
      [] c = "4" -> 4 [] c = "5" -> 5 [] c = "6" -> 6 [] c = "7" -> 7
      [] c = "8" -> 8 [] c = "9" -> 9

WhiteSpace == {" "}

RECURSIVE SkipWhiteSpace(_)
SkipWhiteSpace(s) ==
    IF s # <<>> /\ Head(s) \in WhiteSpace THEN SkipWhiteSpace(Tail(s)) ELSE s

\* the longest prefix of s made of decimal digits
RECURSIVE DigitPrefix(_)
DigitPrefix(s) ==
    IF s # <<>> /\ Head(s) \in Digits
    THEN <<Head(s)>> \o DigitPrefix(Tail(s))
    ELSE <<>>

\* the value of a digit sequence, most significant digit first
RECURSIVE DigitsValue(_, _)
DigitsValue(ds, acc) ==
    IF ds = <<>> THEN acc
    ELSE DigitsValue(Tail(ds), BigAdd(BigMulSmall(acc, 10), BigOfInt(DigitValue(Head(ds)))))

NaN == [nan |-> TRUE, val |-> BigZero]

ParseInt(text) ==
    LET s      == SkipWhiteSpace(text)
        signed == s # <<>> /\ Head(s) \in {"-", "+"}
        neg    == s # <<>> /\ Head(s) = "-"
        ds     == DigitPrefix(IF signed THEN Tail(s) ELSE s)
        mag    == DigitsValue(ds, BigZero)
    IN  IF ds = <<>> THEN NaN
        ELSE [nan |-> FALSE, val |-> IF neg THEN BigNeg(mag) ELSE mag]

----------------------------------------------------------------------------
(* Response headers: res.headers.get("x-rate-limit-reset") is a string or null *)

NullHeader == [present |-> FALSE, text |-> <<>>]

HeaderOf(text) == [present |-> TRUE, text |-> text]

\* resetMs - nowMs clipped at 0, the last two lines of getRateLimitWaitMs
ResetToWait(parsed, nowMs) ==
    LET resetMs == IF BigLess(MS_THRESHOLD, parsed) THEN parsed ELSE BigMulSmall(parsed, 1000)
    IN  BigMax(BigSub(resetMs, nowMs), BigZero)

\* a slip: the difference is not clipped at 0
GetRateLimitWaitMs_NoClip(resetHeader, nowMs) ==
    IF ~resetHeader.present \/ resetHeader.text = <<>>
    THEN BigOfInt(DEFAULT_RATE_LIMIT_WAIT_MS)
    ELSE LET parsed == ParseInt(resetHeader.text)
         IN  IF parsed.nan THEN BigOfInt(DEFAULT_RATE_LIMIT_WAIT_MS)
             ELSE IF BigLess(MS_THRESHOLD, parsed.val)
                  THEN BigSub(parsed.val, nowMs)
                  ELSE BigSub(BigMulSmall(parsed.val, 1000), nowMs)

\* a slip: the threshold test is >= instead of >
GetRateLimitWaitMs_Geq(resetHeader, nowMs) ==
    IF ~resetHeader.present \/ resetHeader.text = <<>>
    THEN BigOfInt(DEFAULT_RATE_LIMIT_WAIT_MS)
    ELSE LET parsed == ParseInt(resetHeader.text)
         IN  IF parsed.nan THEN BigOfInt(DEFAULT_RATE_LIMIT_WAIT_MS)
             ELSE LET resetMs == IF BigLeq(MS_THRESHOLD, parsed.val)
                                 THEN parsed.val
                                 ELSE BigMulSmall(parsed.val, 1000)
                  IN  BigMax(BigSub(resetMs, nowMs), BigZero)

\* a slip: the Number.isNaN test is missing and an unparsable header counts as 0
GetRateLimitWaitMs_NoNaNTest(resetHeader, nowMs) ==
    IF ~resetHeader.present \/ resetHeader.text = <<>>
    THEN BigOfInt(DEFAULT_RATE_LIMIT_WAIT_MS)
    ELSE ResetToWait(ParseInt(resetHeader.text).val, nowMs)

GetRateLimitWaitMs(resetHeader, nowMs) ==
    IF ~resetHeader.present \/ resetHeader.text = <<>>
    THEN BigOfInt(DEFAULT_RATE_LIMIT_WAIT_MS)
    ELSE LET parsed == ParseInt(resetHeader.text)
         IN  IF parsed.nan THEN BigOfInt(DEFAULT_RATE_LIMIT_WAIT_MS)
             ELSE ResetToWait(parsed.val, nowMs)

----------------------------------------------------------------------------
(* Inputs *)

\* header values a server (or a proxy) may send
HeaderTexts ==
    { <<>>,
      <<"a", "b", "c">>,
      <<"1", "2", "a", "b", "c">>,
      <<"-", "5">>,
      <<" ", "4", "2">>,
      <<"1", "7", "0", "0", "0", "0", "0", "0", "0", "0">>,
      <<"1", "7", "0", "0", "0", "0", "0", "0", "0", "1">>,
      <<"1", "7", "0", "0", "0", "0", "0", "0", "0", "2">>,
      <<"1", "7", "0", "0", "0", "0", "0", "0", "0", "1", ".", "9">>,
      <<"1", "7", "0", "0", "0", "0", "0", "0", "0", "1", "0", "0", "0">>,
      <<"1", "7", "0", "0", "0", "0", "0", "0", "0", "0", "2", "5", "0">>,
      <<"1", "0", "0", "0", "0", "0", "0", "0", "0", "0", "0", "0", "0">>,
      <<"1", "0", "0", "0", "0", "0", "0", "0", "0", "0", "0", "0", "1">>,
      <<"9", "9", "9", "9", "9", "9", "9", "9", "9", "9", "9", "9">> }

Headers == {NullHeader} \cup {HeaderOf(t) : t \in HeaderTexts}

\* 1_700_000_000_000 ms
Epoch == [hi |-> 1700000, lo |-> 0]

\* a clock set before September 2001: 999_999_999_000 ms
EarlyClock == [hi |-> 999999, lo |-> 999000]

Clock == {BigAdd(Epoch, BigOfInt(k * ClockStep)) : k \in 0..MaxClockSteps} \cup {EarlyClock}

----------------------------------------------------------------------------
(* JSON values, JSON.stringify and JSON.parse *)

JUndefined == [t |-> "undefined"]

JNull == [t |-> "null"]

JStr(chars) == [t |-> "str", s |-> chars]

JBool(b) == [t |-> "bool", b |-> b]

\* elements: a sequence of JSON values
JArr(elements) == [t |-> "arr", e |-> elements]

\* members: a sequence of [k |-> key text, v |-> JSON value], in source order
JObj(members) == [t |-> "obj", m |-> members]

Member(key, value) == [k |-> key, v |-> value]

Quote == <<"\"">>

RECURSIVE JsonStringify(_)
RECURSIVE StringifyMembers(_)
RECURSIVE StringifyElements(_)
StringifyElements(es) ==
    IF es = <<>> THEN <<>>
    ELSE JsonStringify(Head(es))
         \o (IF Tail(es) = <<>> THEN <<>> ELSE <<",">> \o StringifyElements(Tail(es)))

StringifyMembers(ms) ==
    IF ms = <<>> THEN <<>>
    ELSE Quote \o Head(ms).k \o Quote \o <<":">> \o JsonStringify(Head(ms).v)
         \o (IF Tail(ms) = <<>> THEN <<>> ELSE <<",">> \o StringifyMembers(Tail(ms)))

JsonStringify(v) ==
    CASE v.t = "null" -> <<"n", "u", "l", "l">>
      [] v.t = "bool" -> IF v.b THEN <<"t", "r", "u", "e">> ELSE <<"f", "a", "l", "s", "e">>
      [] v.t = "str"  -> Quote \o v.s \o Quote
      [] v.t = "arr"  -> <<"[">> \o StringifyElements(v.e) \o <<"]">>
      [] v.t = "obj"  -> <<"{">> \o StringifyMembers(v.m) \o <<"}">>

K_detail == <<"d", "e", "t", "a", "i", "l">>

K_title == <<"t", "i", "t", "l", "e">>

K_data == <<"d", "a", "t", "a">>

K_id == <<"i", "d">>

K_errors == <<"e", "r", "r", "o", "r", "s">>

\* the keys of request and response bodies, as the code spells them
BodyKey ==
    [ deleted |-> <<"d", "e", "l", "e", "t", "e", "d">>,
      liked |-> <<"l", "i", "k", "e", "d">>,
      retweeted |-> <<"r", "e", "t", "w", "e", "e", "t", "e", "d">>,
      following |-> <<"f", "o", "l", "l", "o", "w", "i", "n", "g">>,
      meta |-> <<"m", "e", "t", "a">>,
      next_token |-> <<"n", "e", "x", "t", "_", "t", "o", "k", "e", "n">>,
      reply |-> <<"r", "e", "p", "l", "y">>,
      in_reply_to_tweet_id |-> <<"i", "n", "_", "r", "e", "p", "l", "y", "_", "t", "o", "_", "t", "w", "e", "e", "t", "_", "i", "d">>,
      quote_tweet_id |-> <<"q", "u", "o", "t", "e", "_", "t", "w", "e", "e", "t", "_", "i", "d">>,
      tweet_id |-> <<"t", "w", "e", "e", "t", "_", "i", "d">>,
      target_user_id |-> <<"t", "a", "r", "g", "e", "t", "_", "u", "s", "e", "r", "_", "i", "d">>,
      nextToken |-> <<"n", "e", "x", "t", "T", "o", "k", "e", "n">> ]

K_text == <<"t", "e", "x", "t">>

T_Forbidden == <<"F", "o", "r", "b", "i", "d", "d", "e", "n">>

T_NotAllowed == <<"N", "o", "t", " ", "a", "l", "l", "o", "w", "e", "d">>

\* {"data":{key:flag}}
Confirmation(key, flag) == JObj(<<Member(K_data, JObj(<<Member(key, JBool(flag))>>))>>)

\* {"data":{"id":"123","text":"hello"}}
PostDocument ==
    JObj(<<Member(K_data, JObj(<<Member(K_id, JStr(<<"1", "2", "3">>)),
                                Member(K_text, JStr(<<"h", "e", "l", "l", "o">>))>>))>>)

\* {"data":[{"id":"1"}],"meta":{"next_token":"n1"}}
PageDocument ==
    JObj(<<Member(K_data, JArr(<<JObj(<<Member(K_id, JStr(<<"1">>))>>)>>)),
           Member(BodyKey.meta, JObj(<<Member(BodyKey.next_token, JStr(<<"n", "1">>))>>))>>)

\* the documents the endpoints of the resource methods answer with
MethodValues ==
    {Confirmation(key, flag) : key \in {BodyKey.deleted, BodyKey.liked, BodyKey.retweeted, BodyKey.following},
                               flag \in BOOLEAN}
    \cup { PostDocument, PageDocument, JObj(<<Member(K_data, JNull)>>) }

\* the JSON documents a server may answer with
JsonValues ==
    MethodValues \cup
    { JNull,
      JStr(<<"o", "k">>),
      JObj(<<>>),
      JObj(<<Member(K_data, JObj(<<>>))>>),
      JObj(<<Member(K_data, JObj(<<Member(K_id, JStr(<<"1">>))>>))>>),
      JObj(<<Member(K_errors, JStr(<<"x">>))>>),
      JObj(<<Member(K_title, JStr(T_Forbidden))>>),
      JObj(<<Member(K_title, JStr(T_Forbidden)), Member(K_detail, JStr(T_NotAllowed))>>),
      JObj(<<Member(K_detail, JNull), Member(K_title, JStr(T_Forbidden))>>),
      JObj(<<Member(K_detail, JStr(<<>>)), Member(K_title, JStr(T_Forbidden))>>),
      JObj(<<Member(K_detail, JNull), Member(K_title, JNull)>>) }

JsonTexts == {JsonStringify(v) : v \in JsonValues}

\* a body that is no JSON document: n characters of "<html>" repeated
RawText(n) ==
    [i \in 1..n |-> CASE i % 6 = 1 -> "<" [] i % 6 = 2 -> "h" [] i % 6 = 3 -> "t"
                      [] i % 6 = 4 -> "m" [] i % 6 = 5 -> "l" [] OTHER -> ">"]

RawLengths ==
    {0, 1, ERROR_TEXT_LIMIT - 1, ERROR_TEXT_LIMIT, ERROR_TEXT_LIMIT + 1,
     ERROR_TEXT_LIMIT + MaxExtraText}

RawTexts == {RawText(n) : n \in RawLengths}

BodyTexts == JsonTexts \cup RawTexts

\* JSON.parse on the body texts: the document a text serializes, or a SyntaxError
JsonParse(text) ==
    IF \E v \in JsonValues : JsonStringify(v) = text
    THEN [ok |-> TRUE, value |-> CHOOSE v \in JsonValues : JsonStringify(v) = text]
    ELSE [ok |-> FALSE, value |-> JUndefined]

\* (data as any)?.key
GetField(data, key) ==
    IF data.t = "obj" /\ \E i \in 1..Len(data.m) : data.m[i].k = key
    THEN data.m[CHOOSE i \in 1..Len(data.m) : data.m[i].k = key].v
    ELSE JUndefined

\* a ?? b
Nullish(v) == v.t \in {"undefined", "null"}

Coalesce(a, b) == IF Nullish(a) THEN b ELSE a

\* `${detail}` for the details of the model: strings (a JSON string is its
\* characters, the result of JSON.stringify is itself)
TemplateText(v) == v.s

\* text.slice(0, n)
Slice(text, n) == SubSeq(text, 1, IF Len(text) < n THEN Len(text) ELSE n)

----------------------------------------------------------------------------
(* parseResponse *)

HttpStatuses == {200, 201, 204, 299, 300, 400, 429, 500}

\* a slip: only server errors count as failures
Ok_Below500(status) == 200 <= status /\ status <= 499

\* res.ok
Ok(status) == 200 <= status /\ status <= 299

NoResult == [kind |-> "none", value |-> JUndefined, status |-> 0, detail |-> <<>>]

Returned(value) == [kind |-> "return", value |-> value, status |-> 0, detail |-> <<>>]

\* new Error(`X API error ${status}: ${detail}`)
ApiError(status, detail) ==
    [kind |-> "throw", value |-> JUndefined, status |-> status, detail |-> detail]

\* the older executor: res.json() fails on a non-JSON body whatever the status
ParseResponse_JsonOnly(status, text) ==
    LET parsed == JsonParse(text)
    IN  IF ~parsed.ok THEN ApiError(status, Slice(text, ERROR_TEXT_LIMIT))
        ELSE IF ~Ok(status)
             THEN ApiError(status,
                      TemplateText(Coalesce(GetField(parsed.value, K_detail),
                                   Coalesce(GetField(parsed.value, K_title),
                                            JStr(JsonStringify(parsed.value))))))
             ELSE Returned(parsed.value)

\* a slip: the raw text is not cut
ParseResponse_NoSlice(status, text) ==
    LET parsed == JsonParse(text)
    IN  IF ~parsed.ok
        THEN IF ~Ok(status) THEN ApiError(status, text) ELSE Returned(JObj(<<>>))
        ELSE IF ~Ok(status)
             THEN ApiError(status,
                      TemplateText(Coalesce(GetField(parsed.value, K_detail),
                                   Coalesce(GetField(parsed.value, K_title),
                                            JStr(JsonStringify(parsed.value))))))
             ELSE Returned(parsed.value)

\* a slip: || in place of ??, so that an empty detail falls through to the title
ParseResponse_OrChain(status, text) ==
    LET parsed == JsonParse(text)
        Falsy(v) == Nullish(v) \/ (v.t = "str" /\ v.s = <<>>)
        Or(a, b) == IF Falsy(a) THEN b ELSE a
    IN  IF ~parsed.ok
        THEN IF ~Ok(status)
             THEN ApiError(status, Slice(text, ERROR_TEXT_LIMIT))
             ELSE Returned(JObj(<<>>))
        ELSE IF ~Ok(status)
             THEN ApiError(status,
                      TemplateText(Or(GetField(parsed.value, K_detail),
                                   Or(GetField(parsed.value, K_title),
                                      JStr(JsonStringify(parsed.value))))))
             ELSE Returned(parsed.value)

ParseResponse(status, text) ==
    LET parsed == JsonParse(text)
    IN  IF ~parsed.ok
        THEN IF ~Ok(status)
             THEN ApiError(status, Slice(text, ERROR_TEXT_LIMIT))
             ELSE Returned(JObj(<<>>))
        ELSE IF ~Ok(status)
             THEN ApiError(status,
                      TemplateText(Coalesce(GetField(parsed.value, K_detail),
                                   Coalesce(GetField(parsed.value, K_title),
                                            JStr(JsonStringify(parsed.value))))))
             ELSE Returned(parsed.value)

----------------------------------------------------------------------------
(* (waitMs / 1000).toFixed(1) *)

\* Math.floor(ms / 1000)
WholeSeconds(ms) ==
    [hi |-> ms.hi \div 1000, lo |-> (ms.hi % 1000) * 1000 + (ms.lo \div 1000)]

\* the decimal strings toFixed(1) may produce for ms / 1000, as
\* [whole |-> seconds, tenth |-> digit].  ms / 1000 is a double: when ms ends
\* in 50 the double lies just above or just below the midpoint of two
\* tenths, unless it is exact (ms ends in 250 or 750), where toFixed picks
\* the larger.
ToFixed1(ms) ==
    LET frac == ms.lo % 1000
        t    == frac \div 100
        rest == frac % 100
        down == [whole |-> WholeSeconds(ms), tenth |-> t]
        up   == IF t = 9
                THEN [whole |-> BigAdd(WholeSeconds(ms), BigOfInt(1)), tenth |-> 0]
                ELSE [whole |-> WholeSeconds(ms), tenth |-> t + 1]
    IN  IF rest < 50 THEN {down}
        ELSE IF rest > 50 \/ frac \in {250, 750} THEN {up}
        ELSE {down, up}

----------------------------------------------------------------------------
(* The client and its logical calls *)

Calls == {"a", "b"}

BASE_URL == "https://api.x.com/2"

\* the (method, url, body) triples the resource methods hand to request()
Requests ==
    { [method |-> "GET", url |-> "https://api.x.com/2/users/me", body |-> JUndefined],
      [method |-> "POST", url |-> "https://api.x.com/2/tweets",
       body |-> JObj(<<Member(K_text, JStr(<<"h", "i">>))>>)],
      [method |-> "POST", url |-> "https://api.x.com/2/tweets",
       body |-> JObj(<<Member(K_text, JStr(<<"y", "o">>))>>)],
      [method |-> "DELETE", url |-> "https://api.x.com/2/tweets/1", body |-> JUndefined] }

NoRequest == [method |-> "none", url |-> "", body |-> JUndefined]

NoHeader == [step |-> 0, method |-> "none", url |-> "", data |-> JUndefined]

\* oauth.toHeader(oauth.authorize(requestData, token)): the Authorization
\* header of one signing step, with that step's nonce and timestamp and a
\* signature over what requestData holds: the method, the URL with its
\* query string, and requestData.data
Authorize(requestData, step) ==
    [step |-> step, method |-> requestData.method, url |-> requestData.url,
     data |-> requestData.data]

\* a version of request() that hands the body to the signer:
\* requestData = { url, method, data: body }
RequestData_WithBody(d) == [url |-> d.url, method |-> d.method, data |-> d.body]

\* const requestData = { url, method }: requestData.data is undefined
RequestData(d) == [url |-> d.url, method |-> d.method, data |-> JUndefined]

\* body ? JSON.stringify(body) : undefined
FetchBody(body) ==
    IF Nullish(body) \/ (body.t = "str" /\ body.s = <<>>)
    THEN [present |-> FALSE, text |-> <<>>]
    ELSE [present |-> TRUE, text |-> JsonStringify(body)]

\* the request handed to fetch
FetchRequest(d, header, rc) ==
    [method |-> d.method, url |-> d.url, auth |-> header,
     contentType |-> "application/json", body |-> FetchBody(d.body), attempt |-> rc]

IdleCall ==
    [pc |-> "idle", req |-> NoRequest, retryCount |-> 0, authHeader |-> NoHeader,
     status |-> 0, waitMs |-> BigZero, result |-> NoResult, text |-> <<>>,
     signed |-> <<>>, sent |-> <<>>, received |-> <<>>, waits |-> <<>>,
     notes |-> <<>>, events |-> <<>>]

\* the causes a failing fetch may reject with
ErrorCodes == {<<"E", "N", "O", "T", "F", "O", "U", "N", "D">>,
               <<"E", "T", "I", "M", "E", "D", "O", "U", "T">>}

\* the error a failing fetch rejects with
TransportError(code) ==
    [kind |-> "throw-transport", value |-> JUndefined, status |-> 0, detail |-> code]

\* the error a failing onRateLimit callback throws
CallbackError == [kind |-> "throw-callback", value |-> JUndefined, status |-> 0, detail |-> <<>>]

\* the slip retryCount <= MAX_RATE_LIMIT_RETRIES
ShouldRetry_OffByOne(status, retryCount) ==
    status = 429 /\ retryCount <= MAX_RATE_LIMIT_RETRIES

\* a version of request() without bound: every 429 is retried
ShouldRetry_Unbounded(status, retryCount) ==
    status = 429

\* res.status === 429 && retryCount < MAX_RATE_LIMIT_RETRIES
ShouldRetry(status, retryCount) ==
    status = 429 /\ retryCount < MAX_RATE_LIMIT_RETRIES

\* a version of request() that signs once and passes the header on to its retries
Attempt_ReuseHeader(c, d, rc) ==
    LET f      == calls[c]
        step   == signCtr + 1
        header == IF rc = 0 THEN Authorize(RequestData(d), step) ELSE f.authHeader
    IN  /\ signCtr' = step
        /\ calls' = [calls EXCEPT ![c] =
              [f EXCEPT !.pc = "fetching", !.req = d, !.retryCount = rc,
                        !.authHeader = header,
                        !.signed = Append(f.signed, [step |-> step, attempt |-> rc,
                                                     input |-> RequestData(d)]),
                        !.sent = Append(f.sent, FetchRequest(d, header, rc)),
                        !.events = f.events \o <<"sign", "send">>]]

\* request(method, url, body, retryCount) up to `await fetch`: sign, build
\* the headers, start the fetch
Attempt(c, d, rc) ==
    LET f      == calls[c]
        step   == signCtr + 1
        header == Authorize(RequestData(d), step)
    IN  /\ signCtr' = step
        /\ calls' = [calls EXCEPT ![c] =
              [f EXCEPT !.pc = "fetching", !.req = d, !.retryCount = rc,
                        !.authHeader = header,
                        !.signed = Append(f.signed, [step |-> step, attempt |-> rc,
                                                     input |-> RequestData(d)]),
                        !.sent = Append(f.sent, FetchRequest(d, header, rc)),
                        !.events = f.events \o <<"sign", "send">>]]

\* what the caller asks of one client and what the server answers
MainEnv ==
    [requests |-> Requests,
     statuses |-> {200, 429, 500},
     headers  |-> {NullHeader,
                   HeaderOf(<<"1", "7", "0", "0", "0", "0", "0", "0", "0", "1">>),
                   HeaderOf(<<"1", "7", "0", "0", "0", "0", "0", "0", "0", "2">>)},
     clock    |-> {Epoch, BigAdd(Epoch, BigOfInt(ClockStep))},
     bodies   |-> {JsonStringify(JObj(<<Member(K_data, JObj(<<Member(K_id, JStr(<<"1">>))>>))>>)),
                   JsonStringify(JObj(<<Member(K_title, JStr(T_Forbidden))>>)),
                   RawText(0),
                   RawText(6)}]

\* the same for a client that serves two calls at a time
ConcEnv ==
    [requests |-> {d \in Requests : d.method = "GET" \/ d.body = JObj(<<Member(K_text, JStr(<<"h", "i">>))>>)},
     statuses |-> {200, 429},
     headers  |-> {NullHeader,
                   HeaderOf(<<"1", "7", "0", "0", "0", "0", "0", "0", "0", "2">>)},
     clock    |-> {Epoch},
     bodies   |-> {JsonStringify(JObj(<<Member(K_data, JObj(<<Member(K_id, JStr(<<"1">>))>>))>>)),
                   RawText(0)}]

\* the environments by name
EnvOf(name) == CASE name = "main" -> MainEnv [] name = "conc" -> ConcEnv

\* a caller starts a logical call: request(method, url, body)
Call(c) ==
    /\ c \in pending
    /\ calls[c].pc = "idle"
    /\ \E d \in EnvOf(env).requests : Attempt(c, d, 0)
    /\ pending' = pending \ {c}
    /\ UNCHANGED <<options, env, waitVars, parseVars, methodVars, configVars>>

\* the entry of res in the call's history; the reset header and the clock
\* are read only for a response that is retried
Response(status, header, now, retried) ==
    [kind |-> "response", status |-> status,
     header |-> IF retried THEN header ELSE NullHeader,
     now |-> IF retried THEN now ELSE BigZero, error |-> <<>>]

Failure(code) ==
    [kind |-> "failure", status |-> 0, header |-> NullHeader, now |-> BigZero,
     error |-> code]

\* a slip: the message counts the retries made so far, ${retryCount}/${MAX_RATE_LIMIT_RETRIES}
RateLimitMessage_CurrentCount(waitSeconds, retryCount) ==
    [waitSeconds |-> waitSeconds, retry |-> retryCount, max |-> MAX_RATE_LIMIT_RETRIES]

\* `Rate limited by X API. Waiting ${waitSeconds}s before retry ${retryCount + 1}/${MAX_RATE_LIMIT_RETRIES}.`
RateLimitMessage(waitSeconds, retryCount) ==
    [waitSeconds |-> waitSeconds, retry |-> retryCount + 1, max |-> MAX_RATE_LIMIT_RETRIES]

\* this.sleep(ms) up to its await: a timer is set unless ms <= 0
Sleep(ms) == [ms |-> ms, timer |-> ~BigLeq(ms, BigZero)]

\* a slip: the callback is told of the first rate limit only
Throttled_NotifyOnce(f, res, waitSeconds, cb) ==
    LET waitMs == GetRateLimitWaitMs(res.header, res.now)
        told   == cb # "absent" /\ f.retryCount = 0
        note   == IF told THEN <<RateLimitMessage(waitSeconds, f.retryCount)>> ELSE <<>>
    IN  IF told /\ cb = "throws"
        THEN [f EXCEPT !.pc = "done", !.result = CallbackError, !.waitMs = waitMs,
                       !.received = Append(f.received, res),
                       !.notes = f.notes \o note,
                       !.events = f.events \o <<"response", "notify", "done">>]
        ELSE [f EXCEPT !.pc = "sleeping", !.waitMs = waitMs,
                       !.received = Append(f.received, res),
                       !.notes = f.notes \o note,
                       !.waits = Append(f.waits, Sleep(waitMs)),
                       !.events = f.events \o <<"response">>
                                   \o (IF told THEN <<"notify">> ELSE <<>>) \o <<"sleep">>]

\* the retry branch of request() up to `await this.sleep`: compute the wait,
\* call options.onRateLimit?.(message), start the sleep.  A callback that
\* throws ends request() there.
Throttled(f, res, waitSeconds, cb) ==
    LET waitMs == GetRateLimitWaitMs(res.header, res.now)
        told   == cb # "absent"
        note   == IF told THEN <<RateLimitMessage(waitSeconds, f.retryCount)>> ELSE <<>>
    IN  IF cb = "throws"
        THEN [f EXCEPT !.pc = "done", !.result = CallbackError, !.waitMs = waitMs,
                       !.received = Append(f.received, res),
                       !.notes = f.notes \o note,
                       !.events = f.events \o <<"response", "notify", "done">>]
        ELSE [f EXCEPT !.pc = "sleeping", !.waitMs = waitMs,
                       !.received = Append(f.received, res),
                       !.notes = f.notes \o note,
                       !.waits = Append(f.waits, Sleep(waitMs)),
                       !.events = f.events \o <<"response">>
                                   \o (IF told THEN <<"notify">> ELSE <<>>) \o <<"sleep">>]

\* fetch resolves with res: the retry branch, or parseResponse(res) up to
\* `await res.text()`
Respond(c) ==
    /\ calls[c].pc = "fetching"
    /\ \E status \in EnvOf(env).statuses, header \in EnvOf(env).headers,
          now \in EnvOf(env).clock :
          LET f == calls[c]
          IN  IF ShouldRetry(status, f.retryCount)
              THEN \E waitSeconds \in ToFixed1(GetRateLimitWaitMs(header, now)) :
                      calls' = [calls EXCEPT ![c] =
                          Throttled(f, Response(status, header, now, TRUE), waitSeconds,
                                    options.onRateLimit)]
              ELSE calls' = [calls EXCEPT ![c] =
                      [f EXCEPT !.pc = "reading", !.status = status,
                                !.received = Append(f.received,
                                                    Response(status, header, now, FALSE)),
                                !.events = f.events \o <<"response">>]]
    /\ UNCHANGED <<options, env, pending, signCtr, waitVars, parseVars, methodVars, configVars>>

\* a version of request() that takes a rejected fetch for a rate limit: it
\* waits the default time and sends again while retryCount allows
FetchFails_Retry(c) ==
    /\ calls[c].pc = "fetching"
    /\ \E code \in ErrorCodes :
          LET f == calls[c]
          IN  calls' = [calls EXCEPT ![c] =
                 IF f.retryCount < MAX_RATE_LIMIT_RETRIES
                 THEN [f EXCEPT !.pc = "sleeping",
                                !.waitMs = BigOfInt(DEFAULT_RATE_LIMIT_WAIT_MS),
                                !.received = Append(f.received, Failure(code)),
                                !.waits = Append(f.waits,
                                              Sleep(BigOfInt(DEFAULT_RATE_LIMIT_WAIT_MS))),
                                !.events = f.events \o <<"failure", "sleep">>]
                 ELSE [f EXCEPT !.pc = "done", !.result = TransportError(code),
                                !.received = Append(f.received, Failure(code)),
                                !.events = f.events \o <<"failure", "done">>]]
    /\ UNCHANGED <<options, env, pending, signCtr, waitVars, parseVars, methodVars, configVars>>

\* fetch rejects: nothing in request() catches the error, which leaves
\* request() (and every request() that awaits it) as it is
FetchFails(c) ==
    /\ calls[c].pc = "fetching"
    /\ \E code \in ErrorCodes :
          LET f == calls[c]
          IN  calls' = [calls EXCEPT ![c] =
                 [f EXCEPT !.pc = "done", !.result = TransportError(code),
                           !.received = Append(f.received, Failure(code)),
                           !.events = f.events \o <<"failure", "done">>]]
    /\ UNCHANGED <<options, env, pending, signCtr, waitVars, parseVars, methodVars, configVars>>

\* a version of the client that keeps the retry counter in a field of the
\* instance (this.retryCount += 1), which every call in flight then reads
WakeUp_SharedCounter(c) ==
    /\ calls[c].pc = "sleeping"
    /\ LET f      == calls[c]
           rc     == f.retryCount + 1
           step   == signCtr + 1
           header == Authorize(RequestData(f.req), step)
       IN  /\ signCtr' = step
           /\ calls' = [d \in Calls |->
                 IF d = c
                 THEN [f EXCEPT !.pc = "fetching", !.retryCount = rc,
                                !.authHeader = header,
                                !.signed = Append(f.signed, [step |-> step, attempt |-> rc,
                                                             input |-> RequestData(f.req)]),
                                !.sent = Append(f.sent, FetchRequest(f.req, header, rc)),
                                !.events = f.events \o <<"sign", "send">>]
                 ELSE [calls[d] EXCEPT !.retryCount = rc]]
    /\ UNCHANGED <<options, env, pending, waitVars, parseVars, methodVars, configVars>>

\* the sleep is over: return this.request(method, url, body, retryCount + 1)
WakeUp(c) ==
    /\ calls[c].pc = "sleeping"
    /\ Attempt(c, calls[c].req, calls[c].retryCount + 1)
    /\ UNCHANGED <<options, env, pending, waitVars, parseVars, methodVars, configVars>>

\* res.text() resolves: the rest of parseResponse
ReadBody(c) ==
    /\ calls[c].pc = "reading"
    /\ \E text \in EnvOf(env).bodies :
          LET f == calls[c]
          IN  calls' = [calls EXCEPT ![c] =
                  [f EXCEPT !.pc = "done", !.text = text,
                            !.result = ParseResponse(f.status, text),
                            !.events = f.events \o <<"read", "done">>]]
    /\ UNCHANGED <<options, env, pending, signCtr, waitVars, parseVars, methodVars, configVars>>

CallbackKinds == {"absent", "returns", "throws"}

ClientOff ==
    /\ options = [onRateLimit |-> "absent"]
    /\ env = "main"
    /\ pending = {}
    /\ signCtr = 0
    /\ calls = [c \in Calls |-> IdleCall]

----------------------------------------------------------------------------
(* JavaScript numbers of the maxResults argument, in tenths *)

Fin(t) == [k |-> "fin", t |-> t]

Whole(n) == Fin(10 * n)

NumNaN == [k |-> "nan", t |-> 0]

PosInfinity == [k |-> "inf", t |-> 1]

NegInfinity == [k |-> "inf", t |-> -1]

\* the argument is not passed
NumUndefined == [k |-> "undefined", t |-> 0]

\* a < b: false when either is NaN
NumLess(a, b) ==
    /\ a.k # "nan"
    /\ b.k # "nan"
    /\ CASE a.k = "fin" /\ b.k = "fin" -> a.t < b.t
         [] a.k = "inf" /\ b.k = "fin" -> a.t < 0
         [] a.k = "fin" /\ b.k = "inf" -> b.t > 0
         [] OTHER -> a.t < b.t

\* Math.min(a, b), Math.max(a, b): NaN when either is NaN
MathMin(a, b) ==
    IF a.k = "nan" \/ b.k = "nan" THEN NumNaN ELSE IF NumLess(b, a) THEN b ELSE a

MathMax(a, b) ==
    IF a.k = "nan" \/ b.k = "nan" THEN NumNaN ELSE IF NumLess(a, b) THEN b ELSE a

DigitChar(d) == CHOOSE c \in Digits : DigitValue(c) = d

\* the decimal digits of a natural number
RECURSIVE Decimal(_)
Decimal(n) ==
    IF n < 10 THEN <<DigitChar(n)>> ELSE Decimal(n \div 10) \o <<DigitChar(n % 10)>>

\* String(x)
NumString(x) ==
    CASE x.k = "nan" -> <<"N", "a", "N">>
      [] x.k = "inf" -> (IF x.t < 0 THEN <<"-">> ELSE <<>>) \o <<"I", "n", "f", "i", "n", "i", "t", "y">>
      [] x.k = "fin" ->
            LET a == IF x.t < 0 THEN 0 - x.t ELSE x.t
            IN  (IF x.t < 0 THEN <<"-">> ELSE <<>>)
                \o Decimal(a \div 10)
                \o (IF a % 10 = 0 THEN <<>> ELSE <<".", DigitChar(a % 10)>>)

----------------------------------------------------------------------------
(* The resource methods *)

\* the lower bounds and the upper bound of max_results, and the default of maxResults
TIMELINE_MIN_RESULTS == 5

SEARCH_MIN_RESULTS == 10

MAX_RESULTS == 100

DEFAULT_MAX_RESULTS == 10

\* a version of the listing methods that bounds the page size from above only
Clamp_NoFloor(lo, hi, x) == MathMin(Whole(hi), x)

\* Math.max(lo, Math.min(hi, maxResults))
Clamp(lo, hi, x) == MathMax(Whole(lo), MathMin(Whole(hi), x))

\* maxResults = 10 in the parameter list
OrDefault(x) == IF x.k = "undefined" THEN Whole(DEFAULT_MAX_RESULTS) ELSE x

\* a URL: the path below BASE_URL, as segments, and the query, as ordered pairs
Url(path, query) == [path |-> path, query |-> query]

Param(key, value) == [k |-> key, v |-> value]

\* the path segments of the endpoints
PathSegment ==
    [ tweets |-> <<"t", "w", "e", "e", "t", "s">>,
      users |-> <<"u", "s", "e", "r", "s">>,
      me |-> <<"m", "e">>,
      by |-> <<"b", "y">>,
      username |-> <<"u", "s", "e", "r", "n", "a", "m", "e">>,
      search |-> <<"s", "e", "a", "r", "c", "h">>,
      recent |-> <<"r", "e", "c", "e", "n", "t">>,
      likes |-> <<"l", "i", "k", "e", "s">>,
      retweets |-> <<"r", "e", "t", "w", "e", "e", "t", "s">>,
      following |-> <<"f", "o", "l", "l", "o", "w", "i", "n", "g">> ]

\* the names of the query parameters
QueryParam ==
    [ user_fields |-> <<"u", "s", "e", "r", ".", "f", "i", "e", "l", "d", "s">>,
      tweet_fields |-> <<"t", "w", "e", "e", "t", ".", "f", "i", "e", "l", "d", "s">>,
      max_results |-> <<"m", "a", "x", "_", "r", "e", "s", "u", "l", "t", "s">>,
      query |-> <<"q", "u", "e", "r", "y">>,
      pagination_token |-> <<"p", "a", "g", "i", "n", "a", "t", "i", "o", "n", "_", "t", "o", "k", "e", "n">>,
      next_token |-> <<"n", "e", "x", "t", "_", "t", "o", "k", "e", "n">> ]

\* the field lists the methods ask for
FieldList ==
    [ user_fields |-> <<"i", "d", ",", "n", "a", "m", "e", ",", "u", "s", "e", "r", "n", "a", "m", "e", ",", "d", "e", "s", "c", "r", "i", "p", "t", "i", "o", "n", ",", "p", "u", "b", "l", "i", "c", "_", "m", "e", "t", "r", "i", "c", "s">>,
      timeline_fields |-> <<"c", "r", "e", "a", "t", "e", "d", "_", "a", "t", ",", "p", "u", "b", "l", "i", "c", "_", "m", "e", "t", "r", "i", "c", "s", ",", "t", "e", "x", "t">>,
      search_fields |-> <<"c", "r", "e", "a", "t", "e", "d", "_", "a", "t", ",", "p", "u", "b", "l", "i", "c", "_", "m", "e", "t", "r", "i", "c", "s", ",", "a", "u", "t", "h", "o", "r", "_", "i", "d", ",", "t", "e", "x", "t">> ]

NoMethodRequest == [method |-> "none", url |-> Url(<<>>, <<>>), body |-> JUndefined]

\* an invocation: the method, its two string arguments (a, b), createPost's
\* options and the page size and the token of the listing methods.  An
\* argument that is not used is the empty text.
Invocation(op, a, b) ==
    [op |-> op, a |-> a, b |-> b, replyTo |-> <<>>, quoteTweetId |-> <<>>,
     maxResults |-> NumUndefined, token |-> <<>>]

\* params.set(name, paginationToken) when the token is truthy
WithToken(query, name, token) ==
    IF token # <<>> THEN Append(query, Param(name, token)) ELSE query

\* the (method, url, body) a resource method hands to request()
RequestOf(call) ==
    CASE call.op = "createPost" ->
            [method |-> "POST", url |-> Url(<<PathSegment.tweets>>, <<>>),
             body |-> JObj(<<Member(K_text, JStr(call.a))>>
                           \o (IF call.replyTo # <<>>
                               THEN <<Member(BodyKey.reply,
                                        JObj(<<Member(BodyKey.in_reply_to_tweet_id,
                                                      JStr(call.replyTo))>>))>>
                               ELSE <<>>)
                           \o (IF call.quoteTweetId # <<>>
                               THEN <<Member(BodyKey.quote_tweet_id, JStr(call.quoteTweetId))>>
                               ELSE <<>>))]
      [] call.op = "deletePost" ->
            [method |-> "DELETE", url |-> Url(<<PathSegment.tweets, call.a>>, <<>>),
             body |-> JUndefined]
      [] call.op = "me" ->
            [method |-> "GET",
             url |-> Url(<<PathSegment.users, PathSegment.me>>, <<Param(QueryParam.user_fields, FieldList.user_fields)>>),
             body |-> JUndefined]
      [] call.op = "getUser" ->
            [method |-> "GET",
             url |-> Url(<<PathSegment.users, PathSegment.by, PathSegment.username, call.a>>,
                         <<Param(QueryParam.user_fields, FieldList.user_fields)>>),
             body |-> JUndefined]
      [] call.op = "getUserPosts" ->
            LET clamped == Clamp(TIMELINE_MIN_RESULTS, MAX_RESULTS, OrDefault(call.maxResults))
            IN  [method |-> "GET",
                 url |-> Url(<<PathSegment.users, call.a, PathSegment.tweets>>,
                             WithToken(<<Param(QueryParam.max_results, NumString(clamped)),
                                         Param(QueryParam.tweet_fields, FieldList.timeline_fields)>>,
                                       QueryParam.pagination_token, call.token)),
                 body |-> JUndefined]
      [] call.op = "searchRecent" ->
            LET clamped == Clamp(SEARCH_MIN_RESULTS, MAX_RESULTS, OrDefault(call.maxResults))
            IN  [method |-> "GET",
                 url |-> Url(<<PathSegment.tweets, PathSegment.search, PathSegment.recent>>,
                             WithToken(<<Param(QueryParam.query, call.a),
                                         Param(QueryParam.max_results, NumString(clamped)),
                                         Param(QueryParam.tweet_fields, FieldList.search_fields)>>,
                                       QueryParam.next_token, call.token)),
                 body |-> JUndefined]
      [] call.op = "like" ->
            [method |-> "POST", url |-> Url(<<PathSegment.users, call.a, PathSegment.likes>>, <<>>),
             body |-> JObj(<<Member(BodyKey.tweet_id, JStr(call.b))>>)]
      [] call.op = "unlike" ->
            [method |-> "DELETE", url |-> Url(<<PathSegment.users, call.a, PathSegment.likes, call.b>>, <<>>),
             body |-> JUndefined]
      [] call.op = "retweet" ->
            [method |-> "POST", url |-> Url(<<PathSegment.users, call.a, PathSegment.retweets>>, <<>>),
             body |-> JObj(<<Member(BodyKey.tweet_id, JStr(call.b))>>)]
      [] call.op = "follow" ->
            [method |-> "POST", url |-> Url(<<PathSegment.users, call.a, PathSegment.following>>, <<>>),
             body |-> JObj(<<Member(BodyKey.target_user_id, JStr(call.b))>>)]
      [] call.op = "unfollow" ->
            [method |-> "DELETE",
             url |-> Url(<<PathSegment.users, call.a, PathSegment.following, call.b>>, <<>>),
             body |-> JUndefined]

\* Boolean(v)
ToBoolean(v) ==
    CASE v.t \in {"undefined", "null"} -> FALSE
      [] v.t = "bool" -> v.b
      [] v.t = "str" -> v.s # <<>>
      [] OTHER -> TRUE

\* v?.key
OptField(v, key) == IF Nullish(v) THEN JUndefined ELSE GetField(v, key)

\* the TypeError of a property read on null or undefined
TypeError == [kind |-> "throw-type", value |-> JUndefined, status |-> 0, detail |-> <<>>]

\* new Error("X API returned no ... data.")
NoDataError == [kind |-> "throw-nodata", value |-> JUndefined, status |-> 0, detail |-> <<>>]

ConfirmationField(op) ==
    CASE op = "deletePost" -> BodyKey.deleted
      [] op \in {"like", "unlike"} -> BodyKey.liked
      [] op = "retweet" -> BodyKey.retweeted
      [] op \in {"follow", "unfollow"} -> BodyKey.following

\* a version of the confirmation methods that answers whether data is there
MethodReturn_DataPresent(call, outcome) ==
    IF outcome.kind # "return" THEN outcome
    ELSE IF Nullish(outcome.value) THEN TypeError
    ELSE LET res  == outcome.value
             data == GetField(res, K_data)
             meta == GetField(res, BodyKey.meta)
         IN  CASE call.op \in {"createPost", "me", "getUser"} ->
                     IF ~ToBoolean(data) THEN NoDataError ELSE Returned(data)
               [] call.op \in {"deletePost", "like", "retweet", "follow"} ->
                     Returned(JBool(ToBoolean(data)))
               [] call.op \in {"unlike", "unfollow"} ->
                     Returned(JBool(~ToBoolean(OptField(data, ConfirmationField(call.op)))))
               [] call.op \in {"getUserPosts", "searchRecent"} ->
                     Returned(JObj(<<Member(K_data, IF data.t = "arr" THEN data ELSE JArr(<<>>)),
                                     Member(BodyKey.nextToken, OptField(meta, BodyKey.next_token)),
                                     Member(BodyKey.meta, meta)>>))

\* a version of unlike and unfollow that returns the field as it is
MethodReturn_NoNegation(call, outcome) ==
    IF outcome.kind # "return" THEN outcome
    ELSE IF Nullish(outcome.value) THEN TypeError
    ELSE LET res  == outcome.value
             data == GetField(res, K_data)
             meta == GetField(res, BodyKey.meta)
         IN  CASE call.op \in {"createPost", "me", "getUser"} ->
                     IF ~ToBoolean(data) THEN NoDataError ELSE Returned(data)
               [] call.op \in {"deletePost", "like", "retweet", "follow"} ->
                     Returned(JBool(ToBoolean(OptField(data, ConfirmationField(call.op)))))
               [] call.op \in {"unlike", "unfollow"} ->
                     Returned(JBool(ToBoolean(OptField(data, ConfirmationField(call.op)))))
               [] call.op \in {"getUserPosts", "searchRecent"} ->
                     Returned(JObj(<<Member(K_data, IF data.t = "arr" THEN data ELSE JArr(<<>>)),
                                     Member(BodyKey.nextToken, OptField(meta, BodyKey.next_token)),
                                     Member(BodyKey.meta, meta)>>))

\* a version of createPost, me and getUser without the test of res.data
MethodReturn_Unchecked(call, outcome) ==
    IF outcome.kind # "return" THEN outcome
    ELSE IF Nullish(outcome.value) THEN TypeError
    ELSE LET res  == outcome.value
             data == GetField(res, K_data)
             meta == GetField(res, BodyKey.meta)
         IN  CASE call.op \in {"createPost", "me", "getUser"} ->
                     Returned(data)
               [] call.op \in {"deletePost", "like", "retweet", "follow"} ->
                     Returned(JBool(ToBoolean(OptField(data, ConfirmationField(call.op)))))
               [] call.op \in {"unlike", "unfollow"} ->
                     Returned(JBool(~ToBoolean(OptField(data, ConfirmationField(call.op)))))
               [] call.op \in {"getUserPosts", "searchRecent"} ->
                     Returned(JObj(<<Member(K_data, IF data.t = "arr" THEN data ELSE JArr(<<>>)),
                                     Member(BodyKey.nextToken, OptField(meta, BodyKey.next_token)),
                                     Member(BodyKey.meta, meta)>>))

\* what a resource method does with the outcome of `await this.request(...)`:
\* an error leaves the method as it is; res.data reads a property of res
MethodReturn(call, outcome) ==
    IF outcome.kind # "return" THEN outcome
    ELSE IF Nullish(outcome.value) THEN TypeError
    ELSE LET res  == outcome.value
             data == GetField(res, K_data)
             meta == GetField(res, BodyKey.meta)
         IN  CASE call.op \in {"createPost", "me", "getUser"} ->
                     IF ~ToBoolean(data) THEN NoDataError ELSE Returned(data)
               [] call.op \in {"deletePost", "like", "retweet", "follow"} ->
                     Returned(JBool(ToBoolean(OptField(data, ConfirmationField(call.op)))))
               [] call.op \in {"unlike", "unfollow"} ->
                     Returned(JBool(~ToBoolean(OptField(data, ConfirmationField(call.op)))))
               [] call.op \in {"getUserPosts", "searchRecent"} ->
                     Returned(JObj(<<Member(K_data, IF data.t = "arr" THEN data ELSE JArr(<<>>)),
                                     Member(BodyKey.nextToken, OptField(meta, BodyKey.next_token)),
                                     Member(BodyKey.meta, meta)>>))

\* the values of maxResults a caller passes
MaxResultsInputs ==
    {NumUndefined, NumNaN, PosInfinity, NegInfinity}
    \cup {Whole(n) : n \in {0 - 1, 0, 3, TIMELINE_MIN_RESULTS - 1, TIMELINE_MIN_RESULTS,
                            TIMELINE_MIN_RESULTS + 1, SEARCH_MIN_RESULTS - 1,
                            SEARCH_MIN_RESULTS, SEARCH_MIN_RESULTS + 1, 50,
                            MAX_RESULTS - 1, MAX_RESULTS, MAX_RESULTS + 1, 10 * MAX_RESULTS}}
    \cup {Fin(t) : t \in {45, 75, 10 * MAX_RESULTS + 5}}

\* the ids, texts and tokens a caller passes
Argument ==
    [ one |-> <<"1">>,
      two |-> <<"2">>,
      foo |-> <<"f", "o", "o">>,
      hello |-> <<"h", "e", "l", "l", "o">>,
      token |-> <<"t", "o", "k">> ]

\* the invocations a caller makes
Invocations ==
    {[Invocation("createPost", Argument.hello, <<>>) EXCEPT !.replyTo = r, !.quoteTweetId = q] :
        r \in {<<>>, Argument.one}, q \in {<<>>, Argument.two}}
    \cup {Invocation(op, Argument.one, <<>>) : op \in {"deletePost"}}
    \cup {Invocation(op, <<>>, <<>>) : op \in {"me"}}
    \cup {Invocation(op, Argument.foo, <<>>) : op \in {"getUser"}}
    \cup {Invocation(op, Argument.one, Argument.two) : op \in {"like", "unlike", "retweet", "follow", "unfollow"}}
    \cup {[Invocation("getUserPosts", Argument.one, <<>>) EXCEPT !.maxResults = x, !.token = t] :
            x \in MaxResultsInputs, t \in {<<>>, Argument.token}}
    \cup {[Invocation("searchRecent", Argument.foo, <<>>) EXCEPT !.maxResults = x, !.token = t] :
            x \in MaxResultsInputs, t \in {<<>>, Argument.token}}

\* the statuses and the bodies of the final response of request()
MethodStatuses == {200, 404}

MethodBodies == JsonTexts \cup {RawText(0)}

\* what `await this.request(...)` resolves or rejects with
RequestOutcomes ==
    {ParseResponse(status, text) : status \in MethodStatuses, text \in MethodBodies}
    \cup {TransportError(code) : code \in ErrorCodes}
    \cup {CallbackError}

MethodOff ==
    /\ mPc = "off"
    /\ mCall = Invocation("none", <<>>, <<>>)
    /\ mReq = NoMethodRequest
    /\ mRes = NoResult
    /\ mRet = NoResult

----------------------------------------------------------------------------
(* loadCredentials *)

\* process.env[name]: undefined, or a string
Unset == [set |-> FALSE, v |-> <<>>]

Val(text) == [set |-> TRUE, v |-> text]

\* the environment variables loadCredentials reads
VarName ==
    [ X_API_KEY |-> <<"X", "_", "A", "P", "I", "_", "K", "E", "Y">>,
      TWITTER_API_KEY |-> <<"T", "W", "I", "T", "T", "E", "R", "_", "A", "P", "I", "_", "K", "E", "Y">>,
      X_API_SECRET |-> <<"X", "_", "A", "P", "I", "_", "S", "E", "C", "R", "E", "T">>,
      TWITTER_API_SECRET |-> <<"T", "W", "I", "T", "T", "E", "R", "_", "A", "P", "I", "_", "S", "E", "C", "R", "E", "T">>,
      X_ACCESS_TOKEN |-> <<"X", "_", "A", "C", "C", "E", "S", "S", "_", "T", "O", "K", "E", "N">>,
      TWITTER_ACCESS_TOKEN |-> <<"T", "W", "I", "T", "T", "E", "R", "_", "A", "C", "C", "E", "S", "S", "_", "T", "O", "K", "E", "N">>,
      X_ACCESS_TOKEN_SECRET |-> <<"X", "_", "A", "C", "C", "E", "S", "S", "_", "T", "O", "K", "E", "N", "_", "S", "E", "C", "R", "E", "T">>,
      TWITTER_ACCESS_TOKEN_SECRET |-> <<"T", "W", "I", "T", "T", "E", "R", "_", "A", "C", "C", "E", "S", "S", "_", "T", "O", "K", "E", "N", "_", "S", "E", "C", "R", "E", "T">>,
      X_BEARER_TOKEN |-> <<"X", "_", "B", "E", "A", "R", "E", "R", "_", "T", "O", "K", "E", "N">>,
      TWITTER_BEARER_TOKEN |-> <<"T", "W", "I", "T", "T", "E", "R", "_", "B", "E", "A", "R", "E", "R", "_", "T", "O", "K", "E", "N">> ]

\* the four mandatory credentials, in the order the code tests them: the
\* field of XCredentials and the two variables read for it
Mandatory ==
    << [field |-> "apiKey", x |-> VarName.X_API_KEY, tw |-> VarName.TWITTER_API_KEY],
       [field |-> "apiSecret", x |-> VarName.X_API_SECRET, tw |-> VarName.TWITTER_API_SECRET],
       [field |-> "accessToken", x |-> VarName.X_ACCESS_TOKEN, tw |-> VarName.TWITTER_ACCESS_TOKEN],
       [field |-> "accessTokenSecret", x |-> VarName.X_ACCESS_TOKEN_SECRET,
        tw |-> VarName.TWITTER_ACCESS_TOKEN_SECRET] >>

\* the variables of process.env that loadCredentials reads
EnvNames ==
    {Mandatory[i].x : i \in 1..Len(Mandatory)} \cup {Mandatory[i].tw : i \in 1..Len(Mandatory)}
    \cup {VarName.X_BEARER_TOKEN, VarName.TWITTER_BEARER_TOKEN}

UpperCase ==
    {"A", "B", "C", "D", "E", "F", "G", "H", "I", "J", "K", "L", "M",
     "N", "O", "P", "Q", "R", "S", "T", "U", "V", "W", "X", "Y", "Z"}

\* the longest prefix of s that matches [A-Z0-9_]*
RECURSIVE NameChars(_)
NameChars(s) ==
    IF s # <<>> /\ Head(s) \in UpperCase \cup Digits \cup {"_"}
    THEN <<Head(s)>> \o NameChars(Tail(s))
    ELSE <<>>

\* /^\s*(#|$)/.test(line)
IsCommentOrEmpty(line) ==
    LET t == SkipWhiteSpace(line) IN t = <<>> \/ Head(t) = "#"

\* the text matches \s+#.*
IsInlineComment(s) ==
    /\ s # <<>>
    /\ Head(s) \in WhiteSpace
    /\ SkipWhiteSpace(s) # <<>>
    /\ Head(SkipWhiteSpace(s)) = "#"

\* the group (.+?) of \s*(.+?)(?:\s+#.*)?$ on the text after "="
MatchValue(r) ==
    LET r0 == SkipWhiteSpace(r)
        n  == CHOOSE n \in 1..Len(r0) :
                /\ n = Len(r0) \/ IsInlineComment(SubSeq(r0, n + 1, Len(r0)))
                /\ \A k \in 1..(n - 1) : ~IsInlineComment(SubSeq(r0, k + 1, Len(r0)))
    IN  IF r = <<>> THEN [ok |-> FALSE, value |-> <<>>]
        ELSE IF r0 = <<>> THEN [ok |-> TRUE, value |-> <<r[Len(r)]>>]
        ELSE [ok |-> TRUE, value |-> SubSeq(r0, 1, n)]

NoMatch == [ok |-> FALSE, name |-> <<>>, value |-> <<>>]

\* line.match(/^\s*([A-Z_][A-Z0-9_]*)\s*=\s*(.+?)(?:\s+#.*)?$/)
MatchLine(line) ==
    LET t     == SkipWhiteSpace(line)
        name  == IF t # <<>> /\ Head(t) \in UpperCase \cup {"_"} THEN NameChars(t) ELSE <<>>
        after == SkipWhiteSpace(SubSeq(t, Len(name) + 1, Len(t)))
    IN  IF name = <<>> \/ after = <<>> \/ Head(after) # "=" THEN NoMatch
        ELSE LET m == MatchValue(Tail(after))
             IN  IF m.ok THEN [ok |-> TRUE, name |-> name, value |-> m.value] ELSE NoMatch

\* !value for a string or undefined
Falsy(e) == ~e.set \/ e.v = <<>>

\* the loop over the lines of the config file: a matching line sets the
\* variable it names unless process.env has a non-empty value for it
RECURSIVE ApplyLines(_, _)
ApplyLines(penv, lines) ==
    IF lines = <<>> THEN penv
    ELSE LET line == Head(lines)
             m    == MatchLine(line)
         IN  IF ~IsCommentOrEmpty(line) /\ m.ok /\ m.name \in EnvNames /\ Falsy(penv[m.name])
             THEN ApplyLines([penv EXCEPT ![m.name] = Val(m.value)], Tail(lines))
             ELSE ApplyLines(penv, Tail(lines))

\* mode & 0o004
OthersRead(mode) == (mode \div 4) % 2 = 1

\* mode & 0o040
GroupRead(mode) == (mode \div 32) % 2 = 1

\* a version of the warning test that looks at the group's bit as well: mode & 0o044
ShouldWarn_GroupToo(file) == file.exists /\ file.statOk /\ (OthersRead(file.mode) \/ GroupRead(file.mode))

\* existsSync(configPath), statSync(configPath) does not throw, mode & 0o004
ShouldWarn(file) == file.exists /\ file.statOk /\ OthersRead(file.mode)

\* process.env.X_NAME ?? process.env.TWITTER_NAME
Resolve(penv, x, tw) == IF penv[x].set THEN penv[x] ELSE penv[tw]

\* the names pushed to `missing`, in order
RECURSIVE MissingFrom(_, _)
MissingFrom(penv, i) ==
    IF i > Len(Mandatory) THEN <<>>
    ELSE (IF Falsy(Resolve(penv, Mandatory[i].x, Mandatory[i].tw))
          THEN <<Mandatory[i].x>> ELSE <<>>) \o MissingFrom(penv, i + 1)

NoCredentials ==
    [apiKey |-> Unset, apiSecret |-> Unset, accessToken |-> Unset,
     accessTokenSecret |-> Unset, bearerToken |-> Unset]

NotLoaded == [kind |-> "none", creds |-> NoCredentials, missing |-> <<>>]

\* a version of the test that stops at the first credential that is not there
Credentials_FirstMissingOnly(penv) ==
    LET missing == MissingFrom(penv, 1)
    IN  IF missing # <<>>
        THEN [kind |-> "throw", creds |-> NoCredentials, missing |-> <<Head(missing)>>]
        ELSE [kind |-> "return", missing |-> <<>>,
              creds |-> [apiKey |-> Resolve(penv, VarName.X_API_KEY, VarName.TWITTER_API_KEY),
                         apiSecret |-> Resolve(penv, VarName.X_API_SECRET, VarName.TWITTER_API_SECRET),
                         accessToken |-> Resolve(penv, VarName.X_ACCESS_TOKEN, VarName.TWITTER_ACCESS_TOKEN),
                         accessTokenSecret |-> Resolve(penv, VarName.X_ACCESS_TOKEN_SECRET,
                                                       VarName.TWITTER_ACCESS_TOKEN_SECRET),
                         bearerToken |-> Resolve(penv, VarName.X_BEARER_TOKEN,
                                                 VarName.TWITTER_BEARER_TOKEN)]]

\* the end of loadCredentials: the five reads of process.env, the test of
\* the four mandatory values, the error or the record returned
Credentials(penv) ==
    LET missing == MissingFrom(penv, 1)
    IN  IF missing # <<>>
        THEN [kind |-> "throw", creds |-> NoCredentials, missing |-> missing]
        ELSE [kind |-> "return", missing |-> <<>>,
              creds |-> [apiKey |-> Resolve(penv, VarName.X_API_KEY, VarName.TWITTER_API_KEY),
                         apiSecret |-> Resolve(penv, VarName.X_API_SECRET, VarName.TWITTER_API_SECRET),
                         accessToken |-> Resolve(penv, VarName.X_ACCESS_TOKEN, VarName.TWITTER_ACCESS_TOKEN),
                         accessTokenSecret |-> Resolve(penv, VarName.X_ACCESS_TOKEN_SECRET,
                                                       VarName.TWITTER_ACCESS_TOKEN_SECRET),
                         bearerToken |-> Resolve(penv, VarName.X_BEARER_TOKEN,
                                                 VarName.TWITTER_BEARER_TOKEN)]]

\* a file mode of a regular file: S_IFREG and the bits of user, group, others
Mode(u, g, o) == 32768 + 64 * u + 8 * g + o

NoFile == [exists |-> FALSE, statOk |-> FALSE, mode |-> 0, lines |-> <<>>]

ConfigOff ==
    /\ lPc = "off"
    /\ startEnv = [n \in EnvNames |-> Unset]
    /\ processEnv = [n \in EnvNames |-> Unset]
    /\ configFile = NoFile
    /\ warnings = 0
    /\ lResult = NotLoaded

----------------------------------------------------------------------------
(* getRateLimitWaitMs applied to every header and clock value *)

WaitOff == wPc = "off" /\ wHeader = NullHeader /\ wNow = BigZero /\ wWait = BigZero

ParseOff == pPc = "off" /\ pStatus = 0 /\ pText = <<>> /\ pResult = NoResult

InitWait ==
    /\ wPc = "input"
    /\ wHeader \in Headers
    /\ wNow \in Clock
    /\ wWait = BigZero
    /\ ParseOff
    /\ ClientOff
    /\ MethodOff
    /\ ConfigOff

ComputeWait ==
    /\ wPc = "input"
    /\ wWait' = GetRateLimitWaitMs(wHeader, wNow)
    /\ wPc' = "done"
    /\ UNCHANGED <<wHeader, wNow>>
    /\ UNCHANGED parseVars
    /\ UNCHANGED clientVars
    /\ UNCHANGED methodVars
    /\ UNCHANGED configVars

NextWait == ComputeWait

SpecWait == InitWait /\ [][NextWait]_vars

----------------------------------------------------------------------------
(* parseResponse applied to every status and body text *)

InitParse ==
    /\ pPc = "input"
    /\ pStatus \in HttpStatuses
    /\ pText \in BodyTexts
    /\ pResult = NoResult
    /\ WaitOff
    /\ ClientOff
    /\ MethodOff
    /\ ConfigOff

Parse ==
    /\ pPc = "input"
    /\ pResult' = ParseResponse(pStatus, pText)
    /\ pPc' = "done"
    /\ UNCHANGED <<pStatus, pText>>
    /\ UNCHANGED waitVars
    /\ UNCHANGED clientVars
    /\ UNCHANGED methodVars
    /\ UNCHANGED configVars

NextParse == Parse

SpecParse == InitParse /\ [][NextParse]_vars

----------------------------------------------------------------------------
(* The resource methods applied to every invocation and outcome of request() *)

InitMethods ==
    /\ mPc = "start"
    /\ mCall \in Invocations
    /\ mReq = NoMethodRequest
    /\ mRes = NoResult
    /\ mRet = NoResult
    /\ WaitOff
    /\ ParseOff
    /\ ClientOff
    /\ ConfigOff

\* the method up to `await this.request(...)`
Invoke ==
    /\ mPc = "start"
    /\ mReq' = RequestOf(mCall)
    /\ mPc' = "awaiting"
    /\ UNCHANGED <<mCall, mRes, mRet>>
    /\ UNCHANGED <<waitVars, parseVars, clientVars, configVars>>

\* request() settles: the rest of the method
Settle ==
    /\ mPc = "awaiting"
    /\ \E outcome \in RequestOutcomes :
          /\ mRes' = outcome
          /\ mRet' = MethodReturn(mCall, outcome)
    /\ mPc' = "done"
    /\ UNCHANGED <<mCall, mReq>>
    /\ UNCHANGED <<waitVars, parseVars, clientVars, configVars>>

NextMethods == Invoke \/ Settle

SpecMethods == InitMethods /\ [][NextMethods]_vars

----------------------------------------------------------------------------
(* loadCredentials applied to every environment and config file *)

\* the values the environment holds before the file is read
EnvValue ==
    [ e1 |-> <<"e", "1">>,
      e2 |-> <<"e", "2">>,
      e3 |-> <<"e", "3">>,
      e4 |-> <<"e", "4">>,
      t1 |-> <<"t", "1">> ]

\* the environments of the process: X_API_KEY unset, empty or set,
\* TWITTER_API_KEY unset or set, each other X_ variable unset or set
Environments ==
    {[n \in EnvNames |->
        CASE n = VarName.X_API_KEY -> k
          [] n = VarName.TWITTER_API_KEY -> t
          [] n = VarName.X_API_SECRET -> s
          [] n = VarName.X_ACCESS_TOKEN -> a
          [] n = VarName.X_ACCESS_TOKEN_SECRET -> b
          [] OTHER -> Unset] :
        k \in {Unset, Val(<<>>), Val(EnvValue.e1)}, t \in {Unset, Val(EnvValue.t1)},
        s \in {Unset, Val(EnvValue.e2)}, a \in {Unset, Val(EnvValue.e3)}, b \in {Unset, Val(EnvValue.e4)}}

\* the lines a config file is made of
ConfigLine ==
    [ comment |-> <<"#", " ", "t", "w", "x", "-", "c", "l", "i", " ", "c", "r", "e", "d", "e", "n", "t", "i", "a", "l", "s">>,
      x_key |-> <<"X", "_", "A", "P", "I", "_", "K", "E", "Y", "=", "f", "1">>,
      x_key_again |-> <<" ", " ", "X", "_", "A", "P", "I", "_", "K", "E", "Y", " ", "=", " ", "f", "9">>,
      tw_key |-> <<"T", "W", "I", "T", "T", "E", "R", "_", "A", "P", "I", "_", "K", "E", "Y", "=", "g", "1">>,
      x_secret |-> <<"X", "_", "A", "P", "I", "_", "S", "E", "C", "R", "E", "T", " ", "=", " ", "f", "2", " ", "#", " ", "t", "h", "e", " ", "s", "e", "c", "r", "e", "t">>,
      x_token |-> <<"X", "_", "A", "C", "C", "E", "S", "S", "_", "T", "O", "K", "E", "N", "=", "f", "3">>,
      x_token_secret |-> <<"X", "_", "A", "C", "C", "E", "S", "S", "_", "T", "O", "K", "E", "N", "_", "S", "E", "C", "R", "E", "T", "=", "f", "4">>,
      lower |-> <<"x", "_", "a", "p", "i", "_", "k", "e", "y", "=", "f", "0">>,
      no_value |-> <<"X", "_", "A", "P", "I", "_", "K", "E", "Y", "=">> ]

\* the contents of the config file, as content.split("\n")
FileContents ==
    { <<<<>>>>,
      <<ConfigLine.comment, ConfigLine.x_key, <<>>>>,
      <<ConfigLine.tw_key, <<>>>>,
      <<ConfigLine.comment, ConfigLine.x_key, ConfigLine.x_secret, ConfigLine.x_token, ConfigLine.x_token_secret, <<>>>>,
      <<ConfigLine.x_key, ConfigLine.x_key_again, ConfigLine.lower, <<>>>>,
      <<ConfigLine.no_value, ConfigLine.x_secret, ConfigLine.x_token, ConfigLine.x_token_secret>> }

\* the permission bits of the config file
FileModes == {Mode(6, 0, 0), Mode(6, 4, 0), Mode(6, 4, 4), Mode(6, 0, 4)}

ConfigFiles ==
    {NoFile}
    \cup {[exists |-> TRUE, statOk |-> TRUE, mode |-> m, lines |-> c] :
            m \in FileModes, c \in FileContents}
    \cup {[exists |-> TRUE, statOk |-> FALSE, mode |-> 0, lines |-> c] :
            c \in {<<ConfigLine.x_key, <<>>>>}}

InitConfig ==
    /\ lPc = "start"
    /\ startEnv \in Environments
    /\ processEnv = startEnv
    /\ configFile \in ConfigFiles
    /\ warnings = 0
    /\ lResult = NotLoaded
    /\ WaitOff
    /\ ParseOff
    /\ ClientOff
    /\ MethodOff

\* loadCredentials(): the warning, the lines of the file, the credentials
LoadCredentials ==
    /\ lPc = "start"
    /\ warnings' = IF ShouldWarn(configFile) THEN warnings + 1 ELSE warnings
    /\ processEnv' = IF configFile.exists
                     THEN ApplyLines(processEnv, configFile.lines)
                     ELSE processEnv
    /\ lResult' = Credentials(processEnv')
    /\ lPc' = "done"
    /\ UNCHANGED <<startEnv, configFile>>
    /\ UNCHANGED <<waitVars, parseVars, clientVars, methodVars>>

NextConfig == LoadCredentials

SpecConfig == InitConfig /\ [][NextConfig]_vars

----------------------------------------------------------------------------
(* One client, one logical call *)

Init ==
    /\ options \in [onRateLimit : CallbackKinds]
    /\ env = "main"
    /\ pending = {"a"}
    /\ signCtr = 0
    /\ calls = [c \in Calls |-> IdleCall]
    /\ WaitOff
    /\ ParseOff
    /\ MethodOff
    /\ ConfigOff

Next ==
    \E c \in Calls :
        \/ Call(c)
        \/ Respond(c)
        \/ FetchFails(c)
        \/ WakeUp(c)
        \/ ReadBody(c)

Spec == Init /\ [][Next]_vars

----------------------------------------------------------------------------
(* One client, two logical calls in flight at a time *)

InitConc ==
    /\ options \in [onRateLimit : CallbackKinds]
    /\ env = "conc"
    /\ pending = Calls
    /\ signCtr = 0
    /\ calls = [c \in Calls |-> IdleCall]
    /\ WaitOff
    /\ ParseOff
    /\ MethodOff
    /\ ConfigOff

SpecConc == InitConc /\ [][Next]_vars

----------------------------------------------------------------------------
(* One client, one logical call, whose awaits all settle *)

\* every fetch settles (the promise resolves or rejects), every res.text()
\* resolves, and the timer of every sleep fires
Settles ==
    \A c \in Calls :
        /\ WF_vars(Respond(c) \/ FetchFails(c))
        /\ WF_vars(ReadBody(c))
        /\ WF_vars(WakeUp(c))

SpecLive == Init /\ [][Next]_vars /\ Settles

----------------------------------------------------------------------------
(* Properties of getRateLimitWaitMs *)

\* the header is a string that Number.parseInt reads as an integer
Parsable(h) == h.present /\ ~ParseInt(h.text).nan

\* w = max(resetMs - nowMs, 0), stated without subtraction
IsClippedDifference(w, resetMs, nowMs) ==
    /\ BigLeq(BigZero, w)
    /\ BigLess(nowMs, resetMs) => BigAdd(nowMs, w) = resetMs
    /\ BigLeq(resetMs, nowMs) => w = BigZero

\* C3: for a header that parses to an integer R <= 10^12 the computed wait is
\* max(R * 1000 - now, 0): R * 1000 - now when the reset instant is in the
\* future, 0 when it is now or in the past, and never negative.
C3_WaitFromEpochSeconds ==
    (wPc = "done" /\ Parsable(wHeader) /\ BigLeq(ParseInt(wHeader.text).val, MS_THRESHOLD))
        => IsClippedDifference(wWait, BigMulSmall(ParseInt(wHeader.text).val, 1000), wNow)

C3_Witness ==
    /\ wPc = "done"
    /\ Parsable(wHeader)
    /\ BigLeq(ParseInt(wHeader.text).val, MS_THRESHOLD)
    /\ BigLess(wNow, BigMulSmall(ParseInt(wHeader.text).val, 1000))
    /\ wWait = BigOfInt(ClockStep)

\* C4: a header that parses to an integer R > 10^12 is used as epoch
\* milliseconds, wait = max(R - now, 0); any other R, R = 10^12 included, is
\* epoch seconds and is multiplied by 1000.
C4_MillisecondsAboveThreshold ==
    (wPc = "done" /\ Parsable(wHeader))
        => LET R == ParseInt(wHeader.text).val
           IN  /\ BigLess(MS_THRESHOLD, R) => IsClippedDifference(wWait, R, wNow)
               /\ R = MS_THRESHOLD => BigAdd(wNow, wWait) = BigMulSmall(R, 1000)
               /\ BigLess(R, MS_THRESHOLD)
                     => IsClippedDifference(wWait, BigMulSmall(R, 1000), wNow)

C4_Witness ==
    /\ wPc = "done"
    /\ Parsable(wHeader)
    /\ BigLess(MS_THRESHOLD, ParseInt(wHeader.text).val)
    /\ BigLess(wNow, ParseInt(wHeader.text).val)
    /\ BigLess(BigZero, wWait)
    /\ BigAdd(wNow, wWait) = ParseInt(wHeader.text).val

\* C5: for an absent header and for one Number.parseInt cannot read the wait
\* is the default of 1000 ms, whatever the clock says.
C5_DefaultWait ==
    (wPc = "done" /\ ~Parsable(wHeader)) => wWait = BigOfInt(DEFAULT_RATE_LIMIT_WAIT_MS)

C5_Witness ==
    /\ wPc = "done"
    /\ wHeader.present
    /\ wHeader.text # <<>>
    /\ ~Parsable(wHeader)
    /\ wNow # Epoch
    /\ wWait = BigOfInt(DEFAULT_RATE_LIMIT_WAIT_MS)

----------------------------------------------------------------------------
(* Properties of parseResponse *)

\* the JSON document the body text serializes
BodyDocument == CHOOSE v \in JsonValues : JsonStringify(v) = pText

\* the document is an object with a member `key` whose value is not null
HasField(doc, key) ==
    /\ doc.t = "obj"
    /\ \E i \in 1..Len(doc.m) : doc.m[i].k = key /\ doc.m[i].v.t # "null"

FieldText(doc, key) ==
    doc.m[CHOOSE i \in 1..Len(doc.m) : doc.m[i].k = key /\ doc.m[i].v.t # "null"].v.s

\* C6: a 2xx response whose body is no JSON document, the empty body
\* included, yields the empty envelope {} and no error.
C6_NonJsonSuccessIsEmptyEnvelope ==
    (pPc = "done" /\ Ok(pStatus) /\ pText \in RawTexts)
        => (pResult.kind = "return" /\ pResult.value = JObj(<<>>))

C6_Witness ==
    /\ pPc = "done"
    /\ pStatus = 204
    /\ pText = <<>>
    /\ pResult.kind = "return"
    /\ pResult.value = JObj(<<>>)

\* C7: a non-2xx response whose body is no JSON document raises an API error
\* that carries the status and, as detail, the first min(200, length)
\* characters of the raw body.
C7_NonJsonFailureCarriesPrefix ==
    (pPc = "done" /\ ~Ok(pStatus) /\ pText \in RawTexts)
        => /\ pResult.kind = "throw"
           /\ pResult.status = pStatus
           /\ Len(pResult.detail) <= ERROR_TEXT_LIMIT
           /\ Len(pResult.detail) =
                 IF Len(pText) < ERROR_TEXT_LIMIT THEN Len(pText) ELSE ERROR_TEXT_LIMIT
           /\ \A i \in 1..Len(pResult.detail) : pResult.detail[i] = pText[i]

C7_Witness ==
    /\ pPc = "done"
    /\ ~Ok(pStatus)
    /\ pText \in RawTexts
    /\ Len(pText) > ERROR_TEXT_LIMIT
    /\ pResult.kind = "throw"
    /\ Len(pResult.detail) = ERROR_TEXT_LIMIT

\* C8: a non-2xx response whose body is a JSON document raises an API error
\* that carries the status and whose message is the document's detail, else
\* its title, else the document's JSON serialization; it never returns.
C8_JsonFailureMessage ==
    (pPc = "done" /\ ~Ok(pStatus) /\ pText \in JsonTexts)
        => /\ pResult.kind = "throw"
           /\ pResult.status = pStatus
           /\ pResult.detail =
                 IF HasField(BodyDocument, K_detail) THEN FieldText(BodyDocument, K_detail)
                 ELSE IF HasField(BodyDocument, K_title) THEN FieldText(BodyDocument, K_title)
                 ELSE JsonStringify(BodyDocument)

C8_Witness ==
    /\ pPc = "done"
    /\ pStatus = 429
    /\ pText \in JsonTexts
    /\ ~HasField(BodyDocument, K_detail)
    /\ HasField(BodyDocument, K_title)
    /\ pResult.kind = "throw"
    /\ pResult.detail = T_Forbidden

----------------------------------------------------------------------------
(* Properties of request() *)

MaxSends == MAX_RATE_LIMIT_RETRIES + 1

Is429(r) == r.kind = "response" /\ r.status = 429

\* C1: a logical call never has a retry counter above 2 nor more than 3
\* sends; the response to the 3rd send, a 429 included, goes to
\* parseResponse and its outcome is the call's outcome: no further retry.
C1_RetryBound ==
    \A c \in Calls :
        LET f == calls[c]
        IN  /\ f.retryCount <= MAX_RATE_LIMIT_RETRIES
            /\ Len(f.sent) <= MaxSends
            /\ (Len(f.received) = MaxSends /\ f.received[MaxSends].kind = "response")
                  => /\ f.pc \in {"reading", "done"}
                     /\ Len(f.sent) = MaxSends
                     /\ Len(f.waits) = MAX_RATE_LIMIT_RETRIES
                     /\ f.pc = "reading" => f.status = f.received[MaxSends].status
                     /\ f.pc = "done"
                           => /\ f.result.kind \in {"return", "throw"}
                              /\ f.result = ParseResponse(f.received[MaxSends].status, f.text)

C1_Witness ==
    \E c \in Calls :
        /\ calls[c].pc = "done"
        /\ Len(calls[c].sent) = MaxSends
        /\ Len(calls[c].received) = MaxSends
        /\ \A i \in 1..MaxSends : Is429(calls[c].received[i])
        /\ calls[c].result.kind = "throw"
        /\ calls[c].result.status = 429

\* C2: with a callback configured, a call whose first k <= 2 responses are
\* 429 and whose (k+1)-th response has another status makes exactly k
\* backoff waits, k callback invocations and k+1 sends, and its result is
\* parseResponse's outcome on the (k+1)-th response.
C2_ThrottledThenAnswered ==
    \A c \in Calls :
        LET f == calls[c]
            n == Len(f.received)
        IN  ( /\ options.onRateLimit # "absent"
              /\ n >= 1
              /\ n - 1 <= MAX_RATE_LIMIT_RETRIES
              /\ \A i \in 1..(n - 1) : Is429(f.received[i])
              /\ f.received[n].kind = "response"
              /\ f.received[n].status # 429 )
            => /\ Len(f.waits) = n - 1
               /\ Len(f.notes) = n - 1
               /\ Len(f.sent) = n
               /\ f.pc \in {"reading", "done"}
               /\ f.pc = "done" => f.result = ParseResponse(f.received[n].status, f.text)

\* two 429s with a reset 1 s and 2 s ahead, then 200 with {"data":{"id":"1"}}
C2_Witness ==
    \E c \in Calls :
        LET f == calls[c]
        IN  /\ options.onRateLimit = "returns"
            /\ f.pc = "done"
            /\ Len(f.received) = 3
            /\ Is429(f.received[1]) /\ Is429(f.received[2])
            /\ f.received[3].kind = "response" /\ f.received[3].status = 200
            /\ Len(f.waits) = 2 /\ Len(f.notes) = 2 /\ Len(f.sent) = 3
            /\ f.waits[1].ms = BigOfInt(1000) /\ f.waits[2].ms = BigOfInt(2000)
            /\ f.result.kind = "return"
            /\ f.result.value = JObj(<<Member(K_data, JObj(<<Member(K_id, JStr(<<"1">>))>>))>>)

\* The run of request() on the same responses by a client without callback:
\* the i-th response is retried, the waits it makes, and its outcome.
RefRetried(rs, i) == rs[i].kind = "response" /\ ShouldRetry(rs[i].status, i - 1)

RefWaits(rs) ==
    [i \in 1..Cardinality({j \in 1..Len(rs) : RefRetried(rs, j)})
        |-> Sleep(GetRateLimitWaitMs(rs[i].header, rs[i].now))]

RefDone(rs) == rs # <<>> /\ ~RefRetried(rs, Len(rs))

RefResult(rs, text) ==
    IF rs[Len(rs)].kind = "failure" THEN TransportError(rs[Len(rs)].error)
    ELSE ParseResponse(rs[Len(rs)].status, text)

\* C9: whatever the callback does, a failing callback included, a call makes
\* the sends and the waits and reaches the outcome that the same call makes
\* on a client without callback.
C9_CallbackNeverAffectsControlFlow ==
    \A c \in Calls :
        LET f == calls[c]
        IN  /\ f.waits = RefWaits(f.received)
            /\ f.pc = "done"
                  => /\ RefDone(f.received)
                     /\ Len(f.sent) = Len(f.received)
                     /\ f.result = RefResult(f.received, f.text)

\* C10: every attempt of a call, the first send and each retry, is signed
\* by a signing step of its own, and the header of one attempt is never on
\* the request of another.
C10_FreshSignaturePerAttempt ==
    \A c \in Calls :
        LET f == calls[c]
        IN  /\ Len(f.signed) = Len(f.sent)
            /\ \A i \in 1..Len(f.sent) :
                  /\ f.sent[i].attempt = i - 1
                  /\ f.signed[i].attempt = i - 1
                  /\ f.sent[i].auth.step = f.signed[i].step
                  /\ \A d \in Calls : \A j \in 1..Len(calls[d].sent) :
                        (d # c \/ j # i) => calls[d].sent[j].auth # f.sent[i].auth

C10_Witness ==
    \E c \in Calls :
        /\ Len(calls[c].sent) = MaxSends
        /\ calls[c].sent[1].auth.step = 1
        /\ calls[c].sent[2].auth.step = 2
        /\ calls[c].sent[3].auth.step = 3
        /\ calls[c].sent[3].attempt = 2

\* the requests a resource method could make that differ from d in the body only
SameButBody(d) == {e \in Requests : e.method = d.method /\ e.url = d.url /\ e.body # d.body}

\* C11: the signer's input of every attempt is the method and the URL of the
\* request and nothing of its body, so that a request that differs in the
\* body only has the same signer input and, at the same signing step (nonce
\* and timestamp), the same Authorization header, while the bodies handed to
\* fetch differ.
C11_BodyNotSigned ==
    \A c \in Calls :
        LET f == calls[c]
        IN  \A i \in 1..Len(f.sent) :
               /\ f.signed[i].input.method = f.req.method
               /\ f.signed[i].input.url = f.req.url
               /\ f.signed[i].input.data = JUndefined
               /\ f.sent[i].auth = Authorize(f.signed[i].input, f.signed[i].step)
               /\ \A e \in SameButBody(f.req) :
                     /\ RequestData(e) = f.signed[i].input
                     /\ Authorize(RequestData(e), f.signed[i].step) = f.sent[i].auth
                     /\ FetchBody(e.body) # f.sent[i].body

C11_Witness ==
    \E c \in Calls :
        /\ Len(calls[c].sent) >= 2
        /\ calls[c].sent[2].body.present
        /\ SameButBody(calls[c].req) # {}

\* C12: a rejected fetch, at the first attempt or at a retry, is the end of
\* the call: the call's outcome is the very error fetch rejected with, the
\* failed send is the call's last send, no wait and no notification follow
\* it, and parseResponse is not invoked.
C12_TransportFailureEndsCall ==
    \A c \in Calls :
        LET f == calls[c]
        IN  \A i \in 1..Len(f.received) :
               f.received[i].kind = "failure"
                  => /\ i = Len(f.received)
                     /\ f.pc = "done"
                     /\ f.result = TransportError(f.received[i].error)
                     /\ Len(f.sent) = i
                     /\ Len(f.waits) = i - 1
                     /\ Len(f.notes) = IF options.onRateLimit = "absent" THEN 0 ELSE i - 1
                     /\ f.text = <<>>
                     /\ \A j \in 1..Len(f.events) : f.events[j] # "read"
                     /\ SubSeq(f.events, Len(f.events) - 1, Len(f.events))
                           = <<"failure", "done">>

C12_Witness ==
    \E c \in Calls :
        /\ options.onRateLimit = "returns"
        /\ Len(calls[c].received) = MaxSends
        /\ calls[c].received[MaxSends].kind = "failure"
        /\ calls[c].received[MaxSends].error \in ErrorCodes
        /\ calls[c].result = TransportError(calls[c].received[MaxSends].error)

----------------------------------------------------------------------------
(* Properties of calls in flight at the same time *)

\* the outcome of a finished call as its own responses determine it
OwnOutcome(f) ==
    LET n    == Len(f.received)
        last == f.received[n]
    IN  IF last.kind = "failure" THEN TransportError(last.error)
        ELSE IF ShouldRetry(last.status, n - 1) THEN CallbackError
        ELSE ParseResponse(last.status, f.text)

\* the next step of call d can be taken
CanStep(d) ==
    /\ (d \in pending /\ calls[d].pc = "idle") => ENABLED Call(d)
    /\ calls[d].pc = "fetching" => (ENABLED Respond(d) /\ ENABLED FetchFails(d))
    /\ calls[d].pc = "sleeping" => ENABLED WakeUp(d)
    /\ calls[d].pc = "reading" => ENABLED ReadBody(d)

\* C13: with two calls in flight on one client, under every interleaving,
\* each call counts its own retries (the counter is the number of its own
\* finished waits), signs its own request at each of its at most 3 sends, retries
\* its own 429s only, and ends with the outcome of its own last response;
\* while a call is in its backoff wait the other call can take its next
\* step, whichever it is.
C13_CallsDoNotInterfere ==
    \A c \in Calls :
        LET f == calls[c]
            n == Len(f.received)
        IN  /\ Len(f.sent) <= MaxSends
            /\ f.retryCount = Len(f.waits) - (IF f.pc = "sleeping" THEN 1 ELSE 0)
            /\ Len(f.sent) = n + (IF f.pc = "fetching" THEN 1 ELSE 0)
            /\ \A i \in 1..Len(f.sent) :
                  /\ f.sent[i].attempt = i - 1
                  /\ f.sent[i].method = f.req.method
                  /\ f.sent[i].url = f.req.url
                  /\ f.sent[i].body = FetchBody(f.req.body)
                  /\ f.sent[i].auth = Authorize(RequestData(f.req), f.signed[i].step)
            /\ \A i \in 1..(n - 1) : RefRetried(f.received, i)
            /\ f.pc = "done"
                  => /\ f.result = OwnOutcome(f)
                     /\ f.result = CallbackError => options.onRateLimit = "throws"
            /\ f.pc = "sleeping" => \A d \in Calls \ {c} : CanStep(d)

\* call a made its first send and is in its backoff wait; call b started
\* after it, was rate limited twice and has returned
C13_Witness ==
    /\ calls["a"].pc = "sleeping"
    /\ Len(calls["a"].sent) = 1
    /\ calls["a"].sent[1].auth.step = 1
    /\ calls["b"].pc = "done"
    /\ Len(calls["b"].sent) = MaxSends
    /\ calls["b"].sent[1].auth.step = 2
    /\ calls["b"].retryCount = MAX_RATE_LIMIT_RETRIES
    /\ calls["b"].req # calls["a"].req
    /\ calls["b"].result.kind = "return"

----------------------------------------------------------------------------
(* Properties of the resource methods *)

\* the lower bound of max_results of a listing method
MinResults(op) == IF op = "getUserPosts" THEN TIMELINE_MIN_RESULTS ELSE SEARCH_MIN_RESULTS

\* the places of max_results in the query of the request made
MaxResultsParams == {i \in 1..Len(mReq.url.query) : mReq.url.query[i].k = QueryParam.max_results}

\* the value of max_results in the query of the request made
SentMaxResults == mReq.url.query[CHOOSE i \in MaxResultsParams : TRUE].v

\* the text is the decimal numeral of the natural number n
IsNumeral(text, n) ==
    /\ text # <<>>
    /\ DigitPrefix(text) = text
    /\ ParseInt(text).val = BigOfInt(n)

\* C14: getUserPosts and searchRecent make their request whatever the value
\* of maxResults, with exactly one max_results in its query: the lower bound
\* (5 for getUserPosts, 10 for searchRecent) for a value below it, 100 for a
\* value above 100, and the value itself for a value in the range.
C14_MaxResultsClamped ==
    (mPc \in {"awaiting", "done"} /\ mCall.op \in {"getUserPosts", "searchRecent"})
        => LET x  == OrDefault(mCall.maxResults)
               lo == MinResults(mCall.op)
           IN  /\ mReq.method = "GET"
               /\ Cardinality(MaxResultsParams) = 1
               /\ NumLess(x, Whole(lo)) => IsNumeral(SentMaxResults, lo)
               /\ NumLess(Whole(MAX_RESULTS), x) => IsNumeral(SentMaxResults, MAX_RESULTS)
               /\ (x.k = "fin" /\ ~NumLess(x, Whole(lo)) /\ ~NumLess(Whole(MAX_RESULTS), x))
                     => /\ SentMaxResults = NumString(x)
                        /\ x.t % 10 = 0 => IsNumeral(SentMaxResults, x.t \div 10)

\* searchRecent("foo", 3) asks for max_results=10
C14_Witness ==
    /\ mPc = "awaiting"
    /\ mCall.op = "searchRecent"
    /\ mCall.a = Argument.foo
    /\ mCall.maxResults = Whole(3)
    /\ SentMaxResults = <<"1", "0">>

\* the envelope has an object data with a member `key` of the boolean value flag
DataHas(envelope, key, flag) ==
    /\ envelope.t = "obj"
    /\ \E i \in 1..Len(envelope.m) :
          /\ envelope.m[i].k = K_data
          /\ envelope.m[i].v.t = "obj"
          /\ \E j \in 1..Len(envelope.m[i].v.m) :
                /\ envelope.m[i].v.m[j].k = key
                /\ envelope.m[i].v.m[j].v = JBool(flag)

\* request() resolved with a value, null (a 2xx body that is the JSON text
\* null, which is no envelope) excepted
Enveloped == mPc = "done" /\ mRes.kind = "return" /\ ~Nullish(mRes.value)

\* C15: when request() resolves with an envelope, deletePost, like, retweet
\* and follow return a boolean and raise nothing: true when data has the
\* method's field (deleted, liked, retweeted, following) with the value
\* true, false in every other case: field false, field absent, data absent,
\* the envelope {} of an empty 2xx body.
C15_ConfirmationIsFieldTrue ==
    (Enveloped /\ mCall.op \in {"deletePost", "like", "retweet", "follow"})
        => /\ mRet.kind = "return"
           /\ mRet.value = JBool(DataHas(mRes.value, ConfirmationField(mCall.op), TRUE))

\* deletePost("1") on the body {"data":{}} returns false
C15_Witness ==
    /\ Enveloped
    /\ mCall.op = "deletePost"
    /\ mRes.value = JObj(<<Member(K_data, JObj(<<>>))>>)
    /\ mRet = Returned(JBool(FALSE))

\* C16: when request() resolves with an envelope, unlike and unfollow return
\* the negation of the field liked / following of data: true for the field
\* false, false for the field true, and true when the field or data is
\* absent, the envelope {} included.
C16_UndoIsNegatedField ==
    (Enveloped /\ mCall.op \in {"unlike", "unfollow"})
        => /\ mRet.kind = "return"
           /\ DataHas(mRes.value, ConfirmationField(mCall.op), TRUE) => mRet.value = JBool(FALSE)
           /\ DataHas(mRes.value, ConfirmationField(mCall.op), FALSE) => mRet.value = JBool(TRUE)
           /\ (GetField(mRes.value, K_data).t # "obj"
               \/ GetField(GetField(mRes.value, K_data), ConfirmationField(mCall.op)).t = "undefined")
                 => mRet.value = JBool(TRUE)

\* unlike("1", "2") on the body {"data":{"liked":false}} returns true
C16_Witness ==
    /\ Enveloped
    /\ mCall.op = "unlike"
    /\ mRes.value = Confirmation(BodyKey.liked, FALSE)
    /\ mRet = Returned(JBool(TRUE))

----------------------------------------------------------------------------
(* Properties of loadCredentials *)

\* the value process.env holds for the credential when the file has been read
Resolved(i) == Resolve(processEnv, Mandatory[i].x, Mandatory[i].tw)

\* the names of the mandatory credentials without a non-empty value
MissingNames == {Mandatory[i].x : i \in {j \in 1..Len(Mandatory) : Falsy(Resolved(j))}}

C18_EnvironmentFirst ==
    lPc = "done"
        => /\ lResult.kind = "return"
                 => \A i \in 1..Len(Mandatory) :
                       (startEnv[Mandatory[i].x].set \/ startEnv[Mandatory[i].tw].set)
                          => \/ /\ startEnv[Mandatory[i].x].set
                                /\ lResult.creds[Mandatory[i].field] = startEnv[Mandatory[i].x]
                             \/ /\ startEnv[Mandatory[i].tw].set
                                /\ lResult.creds[Mandatory[i].field] = startEnv[Mandatory[i].tw]
           /\ \A n \in EnvNames : startEnv[n].set => processEnv[n] = startEnv[n]

\* C19 as stated: a config file that exists and that the group or the
\* others may read makes loadCredentials warn, and the warning changes
\* nothing of what loadCredentials returns or throws.
C19_GroupOrOthersWarned ==
    lPc = "done"
        => /\ (configFile.exists /\ configFile.statOk
               /\ (GroupRead(configFile.mode) \/ OthersRead(configFile.mode)))
                 => warnings >= 1
           /\ lResult = Credentials(IF configFile.exists
                                    THEN ApplyLines(startEnv, configFile.lines)
                                    ELSE startEnv)

\* C19 amended: loadCredentials warns, once, exactly when the config file
\* exists, its mode can be read and the mode gives read access to the
\* others; a file that only the group may read gives no warning; with or
\* without warning, loadCredentials returns or throws what the environment
\* and the lines of the file determine.
C19_OthersWarned ==
    lPc = "done"
        => /\ warnings = (IF configFile.exists /\ configFile.statOk
                             /\ OthersRead(configFile.mode) THEN 1 ELSE 0)
           /\ lResult = Credentials(IF configFile.exists
                                    THEN ApplyLines(startEnv, configFile.lines)
                                    ELSE startEnv)

\* a file of mode 644 with the four credentials: one warning, and the
\* credentials are returned
C19_Witness ==
    /\ lPc = "done"
    /\ configFile.exists
    /\ configFile.mode = Mode(6, 4, 4)
    /\ warnings = 1
    /\ lResult.kind = "return"
    /\ \A n \in EnvNames : ~startEnv[n].set

----------------------------------------------------------------------------
(* Properties of the retry loop *)

\* the i-th response of the call is retried: the call waits for, or has
\* made, the send that follows it
Retried(f, i) == Len(f.sent) > i \/ (i = Len(f.received) /\ f.pc = "sleeping")

\* C20: the i-th response of a call is retried exactly when its status is
\* 429 and the retry counter (i - 1) is below 2; a response with another
\* status, or the third response, is the call's last: no wait and no
\* notification follow it, it goes to parseResponse, and what parseResponse
\* returns or throws for it is what the call returns or throws.
C20_RetriedIff429BelowBound ==
    \A c \in Calls :
        LET f == calls[c]
        IN  \A i \in 1..Len(f.received) :
               f.received[i].kind = "response"
                  => /\ Retried(f, i)
                           <=> (f.received[i].status = 429 /\ i - 1 < MAX_RATE_LIMIT_RETRIES)
                     /\ ~(f.received[i].status = 429 /\ i - 1 < MAX_RATE_LIMIT_RETRIES)
                           => /\ i = Len(f.received)
                              /\ f.pc \in {"reading", "done"}
                              /\ Len(f.waits) = i - 1
                              /\ Len(f.notes) = IF options.onRateLimit = "absent" THEN 0 ELSE i - 1
                              /\ f.status = f.received[i].status
                              /\ f.pc = "done"
                                    => /\ f.result = ParseResponse(f.received[i].status, f.text)
                                       /\ f.result.kind \in {"return", "throw"}

\* C21: in every retry cycle of a call the events come in the order 429
\* received, wait computed from it, callback invoked (if one is configured),
\* backoff wait, counter incremented, next send.  The callback is invoked
\* right after the response and before the wait, never after it; its j-th
\* message carries the wait computed for the j-th response in seconds to
\* one decimal and the counters j/2.  A callback that throws ends the call at
\* its invocation; one that returns is followed by the wait.
C21_RetryCycleOrder ==
    \A c \in Calls :
        LET f  == calls[c]
            ev == f.events
            cb == options.onRateLimit
        IN  /\ \A i \in 1..Len(ev) :
                  /\ ev[i] = "notify"
                        => /\ cb # "absent"
                           /\ i > 1 /\ ev[i - 1] = "response"
                           /\ i < Len(ev)
                           /\ ev[i + 1] = (IF cb = "throws" THEN "done" ELSE "sleep")
                  /\ ev[i] = "sleep"
                        => /\ i > 1
                           /\ ev[i - 1] = (IF cb = "absent" THEN "response" ELSE "notify")
                           /\ i < Len(ev)
                                 => /\ i + 2 <= Len(ev)
                                    /\ ev[i + 1] = "sign" /\ ev[i + 2] = "send"
            /\ Cardinality({i \in 1..Len(ev) : ev[i] = "sleep"}) = Len(f.waits)
            /\ Cardinality({i \in 1..Len(ev) : ev[i] = "notify"}) = Len(f.notes)
            /\ \A j \in 1..Len(f.waits) :
                  /\ Is429(f.received[j])
                  /\ f.waits[j].ms = GetRateLimitWaitMs(f.received[j].header, f.received[j].now)
                  /\ cb # "absent" => Len(f.notes) >= j
            /\ \A j \in 1..Len(f.notes) :
                  /\ Is429(f.received[j])
                  /\ f.notes[j].waitSeconds
                        \in ToFixed1(GetRateLimitWaitMs(f.received[j].header, f.received[j].now))
                  /\ f.notes[j].retry = j
                  /\ f.notes[j].max = MAX_RATE_LIMIT_RETRIES
            /\ f.retryCount = Len(f.waits) - (IF f.pc = "sleeping" THEN 1 ELSE 0)
            /\ \A j \in 1..Len(f.sent) : f.sent[j].attempt = j - 1

\* two retry cycles with a callback that returns, then a 200: the messages
\* say 1.0s, retry 1/2 and 2.0s, retry 2/2
C21_Witness ==
    \E c \in Calls :
        LET f == calls[c]
        IN  /\ options.onRateLimit = "returns"
            /\ f.pc = "done"
            /\ f.events = <<"sign", "send", "response", "notify", "sleep",
                            "sign", "send", "response", "notify", "sleep",
                            "sign", "send", "response", "read", "done">>
            /\ f.notes = <<RateLimitMessage([whole |-> BigOfInt(1), tenth |-> 0], 0),
                           RateLimitMessage([whole |-> BigOfInt(2), tenth |-> 0], 1)>>
            /\ f.notes[1].retry = 1 /\ f.notes[2].retry = 2
            /\ f.waits[1].ms = BigOfInt(1000) /\ f.waits[2].ms = BigOfInt(2000)

\* the call has ended: request() has returned a value or thrown an error
Terminal(f) == f.pc = "done"

\* C22: a call that was started ends, given that its fetches settle and its
\* sleeps elapse: it reaches a terminal state, which is either a returned
\* value or a thrown error, after at most 3 sends and at most 2 waits, and
\* once it is terminal it makes no further send, wait or notification and
\* its outcome stays what it is.
C22_EveryCallTerminates ==
    /\ \A c \in Calls : (calls[c].pc # "idle") ~> Terminal(calls[c])
    /\ [](\A c \in Calls :
             /\ Len(calls[c].sent) <= MaxSends
             /\ Len(calls[c].waits) <= MAX_RATE_LIMIT_RETRIES
             /\ Terminal(calls[c])
                   <=> calls[c].result.kind
                          \in {"return", "throw", "throw-transport", "throw-callback"})
    /\ [][\A c \in Calls : Terminal(calls[c]) => calls'[c] = calls[c]]_vars

\* a call that ended with a value after 3 sends and 2 waits
C22_Witness ==
    \E c \in Calls :
        /\ Terminal(calls[c])
        /\ calls[c].result.kind = "return"
        /\ Len(calls[c].sent) = MaxSends
        /\ Len(calls[c].waits) = MAX_RATE_LIMIT_RETRIES
        /\ Len(calls[c].notes) = MAX_RATE_LIMIT_RETRIES

\* the three sends of the call were all answered 429
AllThrottled(f) ==
    /\ Len(f.received) = MaxSends
    /\ \A i \in 1..MaxSends : Is429(f.received[i])

\* C23, as stated: when all three sends are answered 429 the call ends
\* with an API error of status 429, never with a value, after exactly two
\* waits and two notifications.
C23_ExhaustedWithTwoNotifications ==
    \A c \in Calls :
        LET f == calls[c]
        IN  AllThrottled(f)
               => /\ f.pc \in {"reading", "done"}
                  /\ Len(f.sent) = MaxSends
                  /\ Len(f.waits) = MAX_RATE_LIMIT_RETRIES
                  /\ Len(f.notes) = MAX_RATE_LIMIT_RETRIES
                  /\ f.pc = "done"
                        => /\ f.result.kind = "throw"
                           /\ f.result.status = 429
                           /\ f.result = ParseResponse(429, f.text)

\* C23, amended: when all three sends are answered 429 the call ends with
\* an API error of status 429, never with a value, after exactly two waits
\* and, on a client with a callback, two notifications; a client without
\* callback makes none.
C23_ExhaustedIsApiError ==
    \A c \in Calls :
        LET f == calls[c]
        IN  AllThrottled(f)
               => /\ f.pc \in {"reading", "done"}
                  /\ Len(f.sent) = MaxSends
                  /\ Len(f.waits) = MAX_RATE_LIMIT_RETRIES
                  /\ Len(f.notes) = (IF options.onRateLimit = "absent"
                                     THEN 0 ELSE MAX_RATE_LIMIT_RETRIES)
                  /\ f.pc = "done"
                        => /\ f.result.kind = "throw"
                           /\ f.result.status = 429
                           /\ f.result = ParseResponse(429, f.text)

\* three 429s on a client whose callback returns, the last with an empty body
C23_Witness ==
    \E c \in Calls :
        LET f == calls[c]
        IN  /\ options.onRateLimit = "returns"
            /\ AllThrottled(f)
            /\ f.pc = "done"
            /\ f.text = <<>>
            /\ f.result.kind = "throw" /\ f.result.status = 429
            /\ Len(f.waits) = 2 /\ Len(f.notes) = 2

\* the envelope is an object whose member data is neither null nor undefined
HasData(envelope) ==
    /\ envelope.t = "obj"
    /\ \E i \in 1..Len(envelope.m) :
          envelope.m[i].k = K_data /\ envelope.m[i].v.t \notin {"null", "undefined"}

\* C24: createPost, me and getUser never return an absent value.  When
\* request() resolves with an envelope that has data they return that data
\* (createPost on {"data":{"id":"123","text":"hello"}} returns
\* {"id":"123","text":"hello"}); when it resolves with anything that has no
\* data (data null, no member data, the {} of an empty or non-JSON 2xx
\* body) they raise an error; when request() raises, they raise the same.
C24_DataOrError ==
    (mPc = "done" /\ mCall.op \in {"createPost", "me", "getUser"})
        => /\ mRet.kind = "return" => mRet.value.t \notin {"null", "undefined"}
           /\ mRes.kind # "return" => mRet = mRes
           /\ mRes.kind = "return"
                 => /\ HasData(mRes.value)
                          => /\ mRet.kind = "return"
                             /\ \E i \in 1..Len(mRes.value.m) :
                                   /\ mRes.value.m[i].k = K_data
                                   /\ mRet.value = mRes.value.m[i].v
                    /\ ~HasData(mRes.value)
                          => mRet.kind \in {"throw-nodata", "throw-type"}
           /\ (mCall.op = "createPost" /\ mRes = Returned(PostDocument))
                 => mRet = Returned(JObj(<<Member(K_id, JStr(<<"1", "2", "3">>)),
                                           Member(K_text, JStr(<<"h", "e", "l", "l", "o">>))>>))

\* createPost("hello") on a 2xx answer whose body is no JSON: request()
\* resolves with {} and createPost raises its error
C24_Witness ==
    /\ mPc = "done"
    /\ mCall.op = "createPost"
    /\ mRes = Returned(JObj(<<>>))
    /\ ~HasData(mRes.value)
    /\ mRet = NoDataError

====
